---- MODULE Spec2Model ----
(***************************************************************************)
(* Model of the perception core of grimm: the VoiceActivityDetector        *)
(* (speech-boundary segmenter, src/src/vad/index.ts), the                  *)
(* WakeWordDetector (trigger-phrase spotter, src/src/wake-word) and the    *)
(* EmulatedChannel (scripted audio source, src/unnamed/part_006).          *)
(*                                                                         *)
(* Times are milliseconds as returned by Date.now().  Probabilities,       *)
(* thresholds, scores and the sensitivity are percentages (0.5 is 50), so  *)
(* that every comparison of the source is an integer comparison.  An audio *)
(* frame is a sequence of 16-bit samples.                                  *)
(***************************************************************************)
EXTENDS Integers, Sequences, FiniteSets, TLC

\* ------------------------------------------------------------------------
\* Bounds of the model
\* ------------------------------------------------------------------------
\* number of processFrame calls on the segmenter explored by one run
MaxFrames == 11

\* null, for the `number | null` fields (Date.now() is never negative)
NULL == -1

\* ------------------------------------------------------------------------
\* Program constants of the segmenter
\* ------------------------------------------------------------------------
DEFAULT_SPEECH_THRESHOLD == 50
DEFAULT_SILENCE_THRESHOLD == 35
DEFAULT_SILENCE_DURATION == 700
DEFAULT_MAX_RECORDING_DURATION == 30000
DEFAULT_MIN_SPEECH_DURATION == 200
VAD_FRAME_SAMPLES == 1536
TARGET_SAMPLE_RATE == 16000
\* options handed to RealTimeVAD.new
REDEMPTION_FRAMES == 8
MIN_SPEECH_FRAMES == 3

\* VoiceActivityDetectorOptions after the constructor's defaults
DefaultOptions ==
    [speechThreshold      |-> DEFAULT_SPEECH_THRESHOLD,
     silenceThreshold     |-> DEFAULT_SILENCE_THRESHOLD,
     silenceDuration      |-> DEFAULT_SILENCE_DURATION,
     maxRecordingDuration |-> DEFAULT_MAX_RECORDING_DURATION,
     minSpeechDuration    |-> DEFAULT_MIN_SPEECH_DURATION]

\* a second, valid configuration with short durations and no minimum speech
ShortOptions ==
    [speechThreshold      |-> DEFAULT_SPEECH_THRESHOLD,
     silenceThreshold     |-> DEFAULT_SILENCE_THRESHOLD,
     silenceDuration      |-> 100,
     maxRecordingDuration |-> 500,
     minSpeechDuration    |-> 0]

VARIABLES
    clock,               \* the last value Date.now() returned
    cfg,                 \* the readonly options of the VoiceActivityDetector
    audioBuffer,         \* Int16Array[]: the frames buffered so far
    silenceStartTime,
    recordingStartTime,
    hasDetectedSpeech,
    speechStartTime,
    lastProbability,
    lastIsSpeech,
    isReleased,
    isInitialized,
    vad,                 \* the frame processor behind RealTimeVAD
    result,              \* what the last call on the segmenter returned
    call,                \* history: the last call on the segmenter
    made,                \* history: the last VoiceActivityDetector.create
    fed,                 \* history: the frames passed since creation / reset
    frames,              \* history: number of processFrame calls so far
    speechSeen,          \* history: a frame since reset was classified speech
    runStart,            \* history: time of the first frame of the current
                         \*   run of non-speech frames after speech, or NULL
    runMin,              \* history: least probability in that run, or NULL
    captureStart,        \* history: time of the first frame since creation
                         \*   or reset, or NULL
    cleared,             \* history: a speech frame arrived while the silence
                         \*   timer was running
    speechAt,            \* history: speechStartTime as the last call used it
    scen,                \* the scripted probability trace being replayed
    melBuffer,           \* WakeWordDetector: window of mel frames
    embeddingBuffer,     \* WakeWordDetector: window of embeddings
    sensitivity,
    wwIsReleased,
    wwIsInitialized,
    wwSessions,          \* the three ONNX sessions: which are not null
    wwResult,            \* what the last call on the spotter returned
    wwError,             \* the message of the error it threw, or "none"
    wwValue,             \* the number a getter returned, or NULL
    wwCall,              \* history: the last call on the spotter
    wwMade,              \* history: the last WakeWordDetector.create
    melCount,            \* history: mel frames produced since creation
    wwRead,              \* history: what the stages of the spotter read
    spotFrames,          \* history: number of processFrame calls so far
    lastScore,           \* history: the score the last call computed, or NULL
    em,                  \* EmulatedChannel: its fields and suspended loops
    emLog,               \* history of the channel
    mic,                 \* MicrophoneChannel: fields, recorder, history
    rep,                 \* the replay of a trace through fresh detectors
    ld,                  \* PluginLoader: its maps, the plugins, history
    drv,                 \* the frame callback that drives the spotter
    pipe,                \* runFullPipeline: its position and history
    eos,                 \* EndOfSpeechDetector: its fields, its last status
    llm                  \* LLMClient: its messages, where its tool loop stands

segVars == <<clock, cfg, audioBuffer, silenceStartTime, recordingStartTime,
             hasDetectedSpeech, speechStartTime, lastProbability,
             lastIsSpeech, isReleased, isInitialized, vad, result, fed,
             frames, speechSeen, runStart, runMin, captureStart, cleared,
             speechAt, call, made>>

spotVars == <<melBuffer, embeddingBuffer, sensitivity, wwIsReleased,
              wwIsInitialized, wwSessions, wwResult, wwError, wwValue,
              wwCall, wwMade, melCount, spotFrames, lastScore, wwRead>>

srcVars == <<em, emLog, mic>>

appVars == <<ld, drv, pipe, eos, llm>>

vars == <<segVars, scen, spotVars, srcVars, rep, appVars>>

\* ------------------------------------------------------------------------
\* Pure helpers of the segmenter
\* ------------------------------------------------------------------------
RECURSIVE Flatten(_)
Flatten(s) == IF s = <<>> THEN <<>> ELSE Head(s) \o Flatten(Tail(s))

\* variant: the new frame is put in front of the buffered ones
BufferFrame_Prepend(buf, frame) == <<frame>> \o buf

\* this.audioBuffer.push(frame.slice())
BufferFrame(buf, frame) == Append(buf, frame)

\* variant: the frame that produced the result is left out
getBufferedAudio_DropLast(buf) ==
    IF buf = <<>> THEN <<>> ELSE Flatten(SubSeq(buf, 1, Len(buf) - 1))

\* getBufferedAudio: one array holding the buffered frames back to back
getBufferedAudio(buf) == Flatten(buf)

\* onFrameProcessed: lastIsSpeech = probabilities.isSpeech > speechThreshold
IsSpeechFrame(p) == p > cfg.speechThreshold

\* variant: the bound itself already times out
MaxDurationExceeded_AtBound(now, rec) == now - rec >= cfg.maxRecordingDuration

\* now - recordingStartTime > maxRecordingDuration
MaxDurationExceeded(now, rec) == now - rec > cfg.maxRecordingDuration

\* speechStartTime ? now - speechStartTime : 0
SpeechDuration(now, start) == IF start = NULL \/ start = 0 THEN 0 ELSE now - start

\* speechDuration < minSpeechDuration
MinSpeechUnmet(now, start) == SpeechDuration(now, start) < cfg.minSpeechDuration

\* variant: silence is counted whether or not speech was heard
NoSpeechYet_Never(hd) == FALSE

\* if (!this.hasDetectedSpeech) return continue
NoSpeechYet(hd) == ~hd

\* variant: a speech frame leaves a running silence timer alone
TimerOnSpeech_Keep(sil) == sil

\* if (isSpeech) this.silenceStartTime = null
TimerOnSpeech(sil) == NULL

\* variant: every silent frame restarts the timer
TimerOnSilence_Restart(sil, now) == now

\* if (this.silenceStartTime === null) this.silenceStartTime = now
TimerOnSilence(sil, now) == IF sil = NULL THEN now ELSE sil

\* now - silenceStartTime > silenceDuration
SilenceExceeded(now, sil) == now - sil > cfg.silenceDuration

\* the frame processor of RealTimeVAD as configured by initialize():
\* a frame above positiveSpeechThreshold clears the redemption counter and,
\* when not speaking, starts speech (onSpeechStart); redemptionFrames
\* frames below negativeSpeechThreshold end it, as a misfire (onVADMisfire)
\* when fewer than minSpeechFrames speech frames were seen.  The inputs of
\* the model keep probabilities off the two thresholds.
VadFresh == [speaking |-> FALSE, redemptionCounter |-> 0, speechFrames |-> 0]

\* this.vad = null after release()
VadNull == [speaking |-> FALSE, redemptionCounter |-> -1, speechFrames |-> 0]

VadProcess(v, p) ==
    LET pos == p > cfg.speechThreshold
        neg == p < cfg.silenceThreshold
        rc  == IF pos THEN 0 ELSE v.redemptionCounter
    IN  IF pos /\ ~v.speaking
        THEN [state |-> [speaking |-> TRUE, redemptionCounter |-> rc,
                         speechFrames |-> 1],
              event |-> "SpeechStart"]
        ELSE IF neg /\ v.speaking /\ rc + 1 >= REDEMPTION_FRAMES
        THEN [state |-> VadFresh,
              event |-> IF v.speechFrames >= MIN_SPEECH_FRAMES
                        THEN "SpeechEnd" ELSE "VADMisfire"]
        ELSE IF neg /\ v.speaking
        THEN [state |-> [v EXCEPT !.redemptionCounter = rc + 1],
              event |-> "none"]
        ELSE [state |-> [v EXCEPT !.redemptionCounter = rc,
                                  !.speechFrames =
                                      IF pos THEN @ + 1 ELSE @],
              event |-> "none"]

\* results of processFrame; error is the message of the VADError a call
\* threw and value the number a getter returned
Continue(p, sp) ==
    [status |-> "continue", probability |-> p, isSpeech |-> sp,
     hasAudio |-> FALSE, audio |-> <<>>, error |-> "none", value |-> NULL]
Terminal(st, p, sp, a) ==
    [status |-> st, probability |-> p, isSpeech |-> sp,
     hasAudio |-> TRUE, audio |-> a, error |-> "none", value |-> NULL]
Threw(message) ==
    [status |-> "error", probability |-> 0, isSpeech |-> FALSE,
     hasAudio |-> FALSE, audio |-> <<>>, error |-> message, value |-> NULL]
NoCall ==
    [status |-> "none", probability |-> 0, isSpeech |-> FALSE,
     hasAudio |-> FALSE, audio |-> <<>>, error |-> "none", value |-> NULL]
\* a getter returned v
Returns(v) == [NoCall EXCEPT !.status = "value", !.value = v]

\* ------------------------------------------------------------------------
\* VoiceActivityDetector
\* ------------------------------------------------------------------------
\* variant: reset() leaves the buffered frames in place
ResetFields_KeepAudio ==
    [audioBuffer        |-> audioBuffer,
     silenceStartTime   |-> NULL,
     recordingStartTime |-> NULL,
     hasDetectedSpeech  |-> FALSE,
     speechStartTime    |-> NULL,
     lastProbability    |-> 0,
     lastIsSpeech       |-> FALSE,
     vad                |-> VadFresh]

\* the fields reset() assigns, and vad.reset()
ResetFields ==
    [audioBuffer        |-> <<>>,
     silenceStartTime   |-> NULL,
     recordingStartTime |-> NULL,
     hasDetectedSpeech  |-> FALSE,
     speechStartTime    |-> NULL,
     lastProbability    |-> 0,
     lastIsSpeech       |-> FALSE,
     vad                |-> VadFresh]

\* the callbacks initialize() registers, run by vad.processAudio:
\* onSpeechStart and onVADMisfire change the detector's fields (the
\* Date.now() of onSpeechStart reads the same millisecond as processFrame)
AfterCallbacks(event, now) ==
    IF event = "SpeechStart"
    THEN [hasDetectedSpeech |-> TRUE, speechStartTime |-> now,
          silenceStartTime |-> NULL]
    ELSE IF event = "VADMisfire"
    THEN [hasDetectedSpeech |-> FALSE, speechStartTime |-> NULL,
          silenceStartTime |-> silenceStartTime]
    ELSE [hasDetectedSpeech |-> hasDetectedSpeech,
          speechStartTime |-> speechStartTime,
          silenceStartTime |-> silenceStartTime]

\* the body of processFrame for an initialized, not released detector:
\* the fields and the result it leaves
ProcessFrameBody(frame, probability, now) ==
    LET rec      == IF recordingStartTime = NULL THEN now
                    ELSE recordingStartTime
        buf      == BufferFrame(audioBuffer, frame)
        lib      == VadProcess(vad, probability)
        isSpeech == IsSpeechFrame(probability)
        cb       == AfterCallbacks(lib.event, now)
        backup   == isSpeech /\ ~cb.hasDetectedSpeech
        hd       == IF backup THEN TRUE ELSE cb.hasDetectedSpeech
        st       == IF backup THEN now ELSE cb.speechStartTime
        sil0     == IF backup THEN NULL ELSE cb.silenceStartTime
        sil1     == TimerOnSilence(sil0, now)
        keep(sil, res) ==
            [audioBuffer        |-> buf,
             silenceStartTime   |-> sil,
             recordingStartTime |-> rec,
             hasDetectedSpeech  |-> hd,
             speechStartTime    |-> st,
             lastProbability    |-> probability,
             lastIsSpeech       |-> isSpeech,
             vad                |-> lib.state,
             result             |-> res,
             speechAt           |-> st]
        done(status) ==
            ResetFields @@
            [result |-> Terminal(status, probability, isSpeech,
                                 getBufferedAudio(buf)),
             speechAt |-> st]
    IN  IF MaxDurationExceeded(now, rec) THEN done("timeout")
        ELSE IF isSpeech
             THEN keep(TimerOnSpeech(sil0), Continue(probability, isSpeech))
        ELSE IF NoSpeechYet(hd)
             THEN keep(sil0, Continue(probability, isSpeech))
        ELSE IF MinSpeechUnmet(now, st)
             THEN keep(sil0, Continue(probability, isSpeech))
        ELSE IF SilenceExceeded(now, sil1) THEN done("end")
        ELSE keep(sil1, Continue(probability, isSpeech))

\* the capture the history variables describe is over once a terminal
\* result was returned: the next frame starts a new one
CaptureOver == result.status \in {"end", "timeout"}

\* processFrame(frame), with the probability the inference returns for it
\* and the value Date.now() returns
processFrame(frame, probability, now) ==
    /\ frames' = frames + 1
    /\ call' = [op |-> "processFrame", released |-> isReleased]
    /\ UNCHANGED made
    /\ IF isReleased \/ ~isInitialized
       THEN /\ result' = Threw(IF isReleased THEN "VAD has been released"
                                ELSE "VAD not initialized")
            /\ UNCHANGED <<clock, cfg, audioBuffer, silenceStartTime,
                           recordingStartTime, hasDetectedSpeech,
                           speechStartTime, lastProbability, lastIsSpeech,
                           isReleased, isInitialized, vad, fed, speechSeen,
                           runStart, runMin, captureStart, cleared,
                           speechAt>>
       ELSE LET post  == ProcessFrameBody(frame, probability, now)
                seen0 == IF CaptureOver THEN FALSE ELSE speechSeen
                run0  == IF CaptureOver THEN NULL ELSE runStart
                min0  == IF CaptureOver THEN NULL ELSE runMin
                sp    == IsSpeechFrame(probability)
            IN  /\ clock' = now
                /\ audioBuffer' = post.audioBuffer
                /\ silenceStartTime' = post.silenceStartTime
                /\ recordingStartTime' = post.recordingStartTime
                /\ hasDetectedSpeech' = post.hasDetectedSpeech
                /\ speechStartTime' = post.speechStartTime
                /\ lastProbability' = post.lastProbability
                /\ lastIsSpeech' = post.lastIsSpeech
                /\ vad' = post.vad
                /\ result' = post.result
                /\ fed' = Append(IF CaptureOver THEN <<>> ELSE fed, frame)
                /\ speechSeen' = (seen0 \/ sp)
                /\ runStart' = IF sp \/ ~seen0 THEN NULL
                               ELSE IF run0 = NULL THEN now ELSE run0
                /\ runMin' = IF sp \/ ~seen0 THEN NULL
                             ELSE IF min0 = NULL \/ probability < min0
                                  THEN probability ELSE min0
                /\ captureStart' = IF CaptureOver \/ captureStart = NULL
                                   THEN now ELSE captureStart
                /\ cleared' = \/ ~CaptureOver /\ cleared
                              \/ sp /\ silenceStartTime # NULL
                /\ speechAt' = post.speechAt
                /\ UNCHANGED <<cfg, isReleased, isInitialized>>

\* the fields of the segmenter a call that only reads leaves alone
segFields == <<clock, cfg, audioBuffer, silenceStartTime, recordingStartTime,
               hasDetectedSpeech, speechStartTime, lastProbability,
               lastIsSpeech, isReleased, isInitialized, vad>>

\* the history of the current capture
segHistory == <<fed, speechSeen, runStart, runMin, captureStart, cleared,
                speechAt>>

\* reset()
reset ==
    /\ call' = [op |-> "reset", released |-> isReleased]
    /\ UNCHANGED made
    /\ IF isReleased
       THEN /\ result' = Threw("VAD has been released")
            /\ UNCHANGED <<segFields, segHistory, frames>>
       ELSE /\ audioBuffer' = ResetFields.audioBuffer
            /\ silenceStartTime' = ResetFields.silenceStartTime
            /\ recordingStartTime' = ResetFields.recordingStartTime
            /\ hasDetectedSpeech' = ResetFields.hasDetectedSpeech
            /\ speechStartTime' = ResetFields.speechStartTime
            /\ lastProbability' = ResetFields.lastProbability
            /\ lastIsSpeech' = ResetFields.lastIsSpeech
            /\ vad' = ResetFields.vad
            /\ result' = [NoCall EXCEPT !.status = "reset"]
            /\ fed' = <<>>
            /\ speechSeen' = FALSE
            /\ runStart' = NULL
            /\ runMin' = NULL
            /\ captureStart' = NULL
            /\ cleared' = FALSE
            /\ speechAt' = NULL
            /\ UNCHANGED <<clock, cfg, isReleased, isInitialized, frames>>

\* variant: getFrameLength() answers on a released detector too
GetterThrows_Never == FALSE

\* if (this.isReleased) throw new VADError("VAD has been released")
GetterThrows == isReleased

\* getFrameLength()
getFrameLength ==
    /\ call' = [op |-> "getFrameLength", released |-> isReleased]
    /\ result' = IF GetterThrows THEN Threw("VAD has been released")
                 ELSE Returns(VAD_FRAME_SAMPLES)
    /\ UNCHANGED <<segFields, segHistory, frames, made>>

\* getSampleRate()
getSampleRate ==
    /\ call' = [op |-> "getSampleRate", released |-> isReleased]
    /\ result' = IF GetterThrows THEN Threw("VAD has been released")
                 ELSE Returns(TARGET_SAMPLE_RATE)
    /\ UNCHANGED <<segFields, segHistory, frames, made>>

\* release(); pauseThrows: this.vad.pause() throws, which release() catches
release(pauseThrows) ==
    /\ call' = [op |-> "release", released |-> isReleased]
    /\ IF ~isReleased
       THEN /\ vad' = VadNull
            /\ audioBuffer' = <<>>
            /\ isReleased' = TRUE
            /\ isInitialized' = FALSE
       ELSE UNCHANGED <<vad, audioBuffer, isReleased, isInitialized>>
    /\ result' = [NoCall EXCEPT !.status = "released"]
    /\ UNCHANGED <<clock, cfg, silenceStartTime, recordingStartTime,
                   hasDetectedSpeech, speechStartTime, lastProbability,
                   lastIsSpeech, segHistory, frames, made>>

\* hasSpeech()
hasSpeech == hasDetectedSpeech

\* getRecordingDuration(), called when Date.now() returns now
getRecordingDuration(now) ==
    IF recordingStartTime = NULL THEN 0 ELSE now - recordingStartTime

\* the validation of the constructor: the options it throws a VADError for
InvalidOptions(o) ==
    \/ o.speechThreshold < 0 \/ o.speechThreshold > 100
    \/ o.silenceThreshold < 0 \/ o.silenceThreshold > 100
    \/ o.silenceDuration < 0
    \/ o.maxRecordingDuration < 0

\* what VoiceActivityDetector.create(options) did: outcome is "ok" or the
\* error it failed with, inits the number of RealTimeVAD.new calls it made
Make(options, engineFails) ==
    IF InvalidOptions(options)
    THEN [options |-> options, outcome |-> "VADError: option", inits |-> 0]
    ELSE IF engineFails
    THEN [options |-> options,
          outcome |-> "VADError: Failed to initialize VAD", inits |-> 1]
    ELSE [options |-> options, outcome |-> "ok", inits |-> 1]

\* no create call was made yet
NotMade == [options |-> DefaultOptions, outcome |-> "none", inits |-> 0]

\* the fields of a detector create(options) returns
CreatedFields(options) ==
    [cfg                |-> options,
     audioBuffer        |-> <<>>,
     silenceStartTime   |-> NULL,
     recordingStartTime |-> NULL,
     hasDetectedSpeech  |-> FALSE,
     speechStartTime    |-> NULL,
     lastProbability    |-> 0,
     lastIsSpeech       |-> FALSE,
     isReleased         |-> FALSE,
     isInitialized      |-> TRUE,
     vad                |-> VadFresh]

\* the history of a detector no frame was passed to
NoHistory ==
    /\ result = NoCall
    /\ fed = <<>>
    /\ frames = 0
    /\ speechSeen = FALSE
    /\ runStart = NULL
    /\ runMin = NULL
    /\ captureStart = NULL
    /\ cleared = FALSE
    /\ speechAt = NULL

\* the state VoiceActivityDetector.create(options) returns
Created(options) ==
    /\ cfg = CreatedFields(options).cfg
    /\ audioBuffer = CreatedFields(options).audioBuffer
    /\ silenceStartTime = CreatedFields(options).silenceStartTime
    /\ recordingStartTime = CreatedFields(options).recordingStartTime
    /\ hasDetectedSpeech = CreatedFields(options).hasDetectedSpeech
    /\ speechStartTime = CreatedFields(options).speechStartTime
    /\ lastProbability = CreatedFields(options).lastProbability
    /\ lastIsSpeech = CreatedFields(options).lastIsSpeech
    /\ isReleased = CreatedFields(options).isReleased
    /\ isInitialized = CreatedFields(options).isInitialized
    /\ vad = CreatedFields(options).vad
    /\ NoHistory
    /\ call = [op |-> "create", released |-> FALSE]
    /\ made = Make(options, FALSE)

\* no detector exists: the program has not called create, or every call
\* failed (the fields are the initializers of the class)
NotCreated ==
    /\ cfg = DefaultOptions
    /\ audioBuffer = <<>>
    /\ silenceStartTime = NULL
    /\ recordingStartTime = NULL
    /\ hasDetectedSpeech = FALSE
    /\ speechStartTime = NULL
    /\ lastProbability = 0
    /\ lastIsSpeech = FALSE
    /\ isReleased = FALSE
    /\ isInitialized = FALSE
    /\ vad = VadNull
    /\ NoHistory
    /\ call = [op |-> "none", released |-> FALSE]
    /\ made = NotMade

\* VoiceActivityDetector.create(options): the constructor validates, then
\* initialize() builds the engine; a failed call returns no detector
create(options, engineFails) ==
    /\ made' = Make(options, engineFails)
    /\ call' = [op |-> "create", released |-> FALSE]
    /\ IF Make(options, engineFails).outcome = "ok"
       THEN /\ cfg' = CreatedFields(options).cfg
            /\ audioBuffer' = CreatedFields(options).audioBuffer
            /\ silenceStartTime' = CreatedFields(options).silenceStartTime
            /\ recordingStartTime' = CreatedFields(options).recordingStartTime
            /\ hasDetectedSpeech' = CreatedFields(options).hasDetectedSpeech
            /\ speechStartTime' = CreatedFields(options).speechStartTime
            /\ lastProbability' = CreatedFields(options).lastProbability
            /\ lastIsSpeech' = CreatedFields(options).lastIsSpeech
            /\ isReleased' = CreatedFields(options).isReleased
            /\ isInitialized' = CreatedFields(options).isInitialized
            /\ vad' = CreatedFields(options).vad
            /\ UNCHANGED clock
       ELSE UNCHANGED segFields
    /\ result' = NoCall
    /\ fed' = <<>>
    /\ frames' = 0
    /\ speechSeen' = FALSE
    /\ runStart' = NULL
    /\ runMin' = NULL
    /\ captureStart' = NULL
    /\ cleared' = FALSE
    /\ speechAt' = NULL

\* ------------------------------------------------------------------------
\* WakeWordDetector
\* ------------------------------------------------------------------------
SAMPLE_RATE == 16000
FRAME_LENGTH == 1280
MEL_FRAMES_PER_CHUNK == 5
MEL_BUFFER_SIZE == 76
EMBEDDING_WINDOW_SLIDE == 8
REQUIRED_EMBEDDINGS == 16
DEFAULT_SENSITIVITY == 50

\* melSession, embeddingSession, wakeWordSession: which are not null
SessionsLoaded == [mel |-> TRUE, embedding |-> TRUE, wakeWord |-> TRUE]
SessionsNull == [mel |-> FALSE, embedding |-> FALSE, wakeWord |-> FALSE]

\* a mel frame is named by its position in the stream of mel frames the
\* melspectrogram model has produced; an embedding by the first and the
\* last mel frame of the window it was computed from
RECURSIVE MelFrames(_, _)
MelFrames(from, n) ==
    IF n = 0 THEN <<>> ELSE <<from>> \o MelFrames(from + 1, n - 1)

\* computeEmbedding: reads the first MEL_BUFFER_SIZE frames of the buffer
computeEmbedding(mel) == <<mel[1], mel[MEL_BUFFER_SIZE]>>

\* computeEmbedding throws: the session is null, or melWindow[i] is
\* undefined for an i below MEL_BUFFER_SIZE and melData.set throws
EmbeddingError(mel) ==
    IF ~wwSessions.embedding THEN "Embedding session not initialized"
    ELSE IF Len(mel) < MEL_BUFFER_SIZE THEN "TypeError"
    ELSE "none"

\* computeWakeWordScore throws: the session is null, or embeddings[i] is
\* undefined for an i below 16 and embeddingData.set throws
ScoreError(emb) ==
    IF ~wwSessions.wakeWord THEN "Wake word session not initialized"
    ELSE IF Len(emb) < REQUIRED_EMBEDDINGS THEN "TypeError"
    ELSE "none"

\* variant: the mel window slides half as far
SlideMel_Half(mel) ==
    SubSeq(mel, EMBEDDING_WINDOW_SLIDE \div 2 + 1, Len(mel))

\* variant: the mel window slides one frame less
SlideMel_Short(mel) == SubSeq(mel, EMBEDDING_WINDOW_SLIDE, Len(mel))

\* this.melBuffer.slice(EMBEDDING_WINDOW_SLIDE)
SlideMel(mel) == SubSeq(mel, EMBEDDING_WINDOW_SLIDE + 1, Len(mel))

\* variant: the embedding window is not slid
SlideEmbeddings_None(emb) == emb

\* this.embeddingBuffer.slice(1)
SlideEmbeddings(emb) == SubSeq(emb, 2, Len(emb))

\* variant: the loop already runs one mel frame short of a full window
EnoughMel_OneShort(mel) == Len(mel) >= MEL_BUFFER_SIZE - 1

\* this.melBuffer.length >= MEL_BUFFER_SIZE
EnoughMel(mel) == Len(mel) >= MEL_BUFFER_SIZE

\* while (this.melBuffer.length >= MEL_BUFFER_SIZE) { ... }: the windows
\* it leaves, and the error that ended it if computeEmbedding threw
RECURSIVE EmbeddingLoop(_, _)
EmbeddingLoop(mel, emb) ==
    IF EnoughMel(mel)
    THEN IF EmbeddingError(mel) # "none"
         THEN [mel |-> mel, emb |-> emb, error |-> EmbeddingError(mel)]
         ELSE EmbeddingLoop(SlideMel(mel),
                            Append(emb, computeEmbedding(mel)))
    ELSE [mel |-> mel, emb |-> emb, error |-> "none"]

\* variant: a score equal to the sensitivity already triggers
Detected_AtSensitivity(score) == score >= sensitivity

\* if (score > this.sensitivity)
Detected(score) == score > sensitivity

\* this.melBuffer = []; this.embeddingBuffer = [] after a detection
AfterDetection(mel, emb) == [mel |-> <<>>, emb |-> <<>>]

\* the error the checks at the top of processFrame throw for a frame of
\* len samples, or "none"
Rejection(len) ==
    IF wwIsReleased THEN "Detector has been released"
    ELSE IF ~wwIsInitialized THEN "Detector not initialized"
    ELSE IF len # FRAME_LENGTH THEN "Invalid frame length"
    ELSE "none"

\* variant: a rejected call empties the windows
RejectedWindows_Emptied(mel, emb) == [mel |-> <<>>, emb |-> <<>>]

\* the windows a rejected call leaves: the checks throw before the first
\* assignment
RejectedWindows(mel, emb) == [mel |-> mel, emb |-> emb]

\* this.embeddingBuffer.slice(-16) of computeWakeWordScore: the embeddings
\* the wake word model is given
ScoreWindow(emb) ==
    SubSeq(emb, IF Len(emb) > REQUIRED_EMBEDDINGS
                THEN Len(emb) - REQUIRED_EMBEDDINGS + 1 ELSE 1, Len(emb))

\* what the stages have read: base is the number of mel frames produced
\* before the current run of frames began (at creation, reset() or a
\* detection), stage3 the embeddings the wake word model was last given
\* and ended whether that call detected the wake word
NoRead(base) == [base |-> base, stage3 |-> <<>>, ended |-> FALSE]

\* the body of processFrame for a frame that passed the checks: the
\* melspectrogram model returns nmel mel frames and the wake word model,
\* if it runs, returns score
ProcessBody(nmel, score) ==
    LET mel1 == melBuffer \o MelFrames(melCount + 1, nmel)
        lp   == EmbeddingLoop(mel1, embeddingBuffer)
        run3 == Len(lp.emb) >= REQUIRED_EMBEDDINGS
        emb2 == SlideEmbeddings(lp.emb)
        hit  == Detected(score)
        threw(mel, emb, n, message) ==
            [mel |-> mel, emb |-> emb, produced |-> n, result |-> "error",
             error |-> message, score |-> NULL, read |-> <<>>]
        returned(w, res, sc) ==
            [mel |-> w.mel, emb |-> w.emb, produced |-> nmel,
             result |-> res, error |-> "none", score |-> sc,
             read |-> IF sc = NULL THEN <<>> ELSE ScoreWindow(lp.emb)]
    IN  IF ~wwSessions.mel
        THEN threw(melBuffer, embeddingBuffer, 0,
                   "Mel session not initialized")
        ELSE IF lp.error # "none"
        THEN threw(lp.mel, lp.emb, nmel, lp.error)
        ELSE IF ~run3
        THEN returned([mel |-> lp.mel, emb |-> lp.emb], "false", NULL)
        ELSE IF ScoreError(lp.emb) # "none"
        THEN threw(lp.mel, lp.emb, nmel, ScoreError(lp.emb))
        ELSE IF hit
        THEN returned(AfterDetection(lp.mel, emb2), "true", score)
        ELSE returned([mel |-> lp.mel, emb |-> emb2], "false", score)

\* processFrame(frame) of the spotter for a frame of len samples
spotProcessFrame(len, nmel, score) ==
    /\ spotFrames' = spotFrames + 1
    /\ wwCall' = [op |-> "processFrame", len |-> len,
                  released |-> wwIsReleased]
    /\ wwValue' = NULL
    /\ IF Rejection(len) # "none"
       THEN /\ wwResult' = "error"
            /\ wwError' = Rejection(len)
            /\ lastScore' = NULL
            /\ melBuffer' = RejectedWindows(melBuffer, embeddingBuffer).mel
            /\ embeddingBuffer' =
                  RejectedWindows(melBuffer, embeddingBuffer).emb
            /\ UNCHANGED <<melCount, wwRead>>
       ELSE LET out == ProcessBody(nmel, score)
            IN  /\ melCount' = melCount + out.produced
                /\ wwRead' =
                      IF out.result = "true"
                      THEN [base |-> melCount + out.produced,
                            stage3 |-> out.read, ended |-> TRUE]
                      ELSE IF out.read # <<>>
                      THEN [wwRead EXCEPT !.stage3 = out.read,
                                          !.ended = FALSE]
                      ELSE wwRead
                /\ lastScore' = out.score
                /\ melBuffer' = out.mel
                /\ embeddingBuffer' = out.emb
                /\ wwResult' = out.result
                /\ wwError' = out.error
    /\ UNCHANGED <<sensitivity, wwIsReleased, wwIsInitialized, wwSessions,
                   wwMade>>

\* variant: reset() keeps the embeddings
ResetWindows_KeepsEmbeddings(mel, emb) == [mel |-> <<>>, emb |-> emb]

\* this.melBuffer = []; this.embeddingBuffer = [] of reset()
ResetWindows(mel, emb) == [mel |-> <<>>, emb |-> <<>>]

\* reset() of the spotter
spotReset ==
    /\ wwCall' = [op |-> "reset", len |-> 0, released |-> wwIsReleased]
    /\ IF wwIsReleased
       THEN /\ wwResult' = "error"
            /\ wwError' = "Detector has been released"
            /\ UNCHANGED <<melBuffer, embeddingBuffer, wwRead>>
       ELSE /\ wwRead' = NoRead(melCount)
            /\ melBuffer' = ResetWindows(melBuffer, embeddingBuffer).mel
            /\ embeddingBuffer' =
                  ResetWindows(melBuffer, embeddingBuffer).emb
            /\ wwResult' = "reset"
            /\ wwError' = "none"
    /\ lastScore' = NULL
    /\ wwValue' = NULL
    /\ UNCHANGED <<sensitivity, wwIsReleased, wwIsInitialized, wwSessions,
                   wwMade, melCount, spotFrames>>

\* getFrameLength() of the spotter
spotGetFrameLength ==
    /\ wwCall' = [op |-> "getFrameLength", len |-> 0,
                  released |-> wwIsReleased]
    /\ IF wwIsReleased
       THEN /\ wwResult' = "error"
            /\ wwError' = "Detector has been released"
            /\ wwValue' = NULL
       ELSE /\ wwResult' = "value"
            /\ wwError' = "none"
            /\ wwValue' = FRAME_LENGTH
    /\ UNCHANGED <<melBuffer, embeddingBuffer, sensitivity, wwIsReleased,
                   wwIsInitialized, wwSessions, wwMade, melCount,
                   spotFrames, lastScore, wwRead>>

\* getSampleRate() of the spotter
spotGetSampleRate ==
    /\ wwCall' = [op |-> "getSampleRate", len |-> 0,
                  released |-> wwIsReleased]
    /\ IF wwIsReleased
       THEN /\ wwResult' = "error"
            /\ wwError' = "Detector has been released"
            /\ wwValue' = NULL
       ELSE /\ wwResult' = "value"
            /\ wwError' = "none"
            /\ wwValue' = SAMPLE_RATE
    /\ UNCHANGED <<melBuffer, embeddingBuffer, sensitivity, wwIsReleased,
                   wwIsInitialized, wwSessions, wwMade, melCount,
                   spotFrames, lastScore, wwRead>>

\* the three `if (session) { await session.release(); session = null }`
\* of release(), where the release() of the session named by fails
\* rejects ("none": no session fails): the sessions left and whether the
\* rejection escaped
ReleaseSessions(s, fails) ==
    IF s.mel /\ fails = "mel"
    THEN [sessions |-> s, threw |-> TRUE]
    ELSE IF s.embedding /\ fails = "embedding"
    THEN [sessions |-> [s EXCEPT !.mel = FALSE], threw |-> TRUE]
    ELSE IF s.wakeWord /\ fails = "wakeWord"
    THEN [sessions |-> [s EXCEPT !.mel = FALSE, !.embedding = FALSE],
          threw |-> TRUE]
    ELSE [sessions |-> SessionsNull, threw |-> FALSE]

\* release() of the spotter
spotRelease(fails) ==
    /\ wwCall' = [op |-> "release", len |-> 0, released |-> wwIsReleased]
    /\ IF wwIsReleased
       THEN /\ wwResult' = "released"
            /\ wwError' = "none"
            /\ UNCHANGED <<wwSessions, melBuffer, embeddingBuffer,
                           wwIsReleased, wwIsInitialized>>
       ELSE IF ReleaseSessions(wwSessions, fails).threw
       THEN /\ wwSessions' = ReleaseSessions(wwSessions, fails).sessions
            /\ wwResult' = "error"
            /\ wwError' = "session release failed"
            /\ UNCHANGED <<melBuffer, embeddingBuffer, wwIsReleased,
                           wwIsInitialized>>
       ELSE /\ wwSessions' = ReleaseSessions(wwSessions, fails).sessions
            /\ melBuffer' = <<>>
            /\ embeddingBuffer' = <<>>
            /\ wwIsReleased' = TRUE
            /\ wwIsInitialized' = FALSE
            /\ wwResult' = "released"
            /\ wwError' = "none"
    /\ lastScore' = NULL
    /\ wwValue' = NULL
    /\ UNCHANGED <<sensitivity, wwMade, melCount, spotFrames, wwRead>>

\* variant: only a sensitivity above 1 is refused
InvalidSensitivity_Above(sens) == sens > 100

\* if (this.sensitivity < 0 || this.sensitivity > 1) throw
InvalidSensitivity(sens) == sens < 0 \/ sens > 100

\* what WakeWordDetector.create({sensitivity}) did.  missing is the first
\* of the three model files that does not exist and failing the first
\* InferenceSession.create that rejects (0: none).  outcome is "ok" or the
\* error create failed with, checks the number of existsSync calls and
\* loads the number of InferenceSession.create calls it made
SpotMake(sens, missing, failing) ==
    IF InvalidSensitivity(sens)
    THEN [sensitivity |-> sens, outcome |-> "WakeWordError",
          checks |-> 0, loads |-> 0]
    ELSE IF missing # 0
    THEN [sensitivity |-> sens, outcome |-> "WakeWordModelError",
          checks |-> missing, loads |-> 0]
    ELSE IF failing # 0
    THEN [sensitivity |-> sens, outcome |-> "WakeWordModelError",
          checks |-> 3, loads |-> failing]
    ELSE [sensitivity |-> sens, outcome |-> "ok", checks |-> 3, loads |-> 3]

\* no create call was made yet
SpotNotMade ==
    [sensitivity |-> DEFAULT_SENSITIVITY, outcome |-> "none",
     checks |-> 0, loads |-> 0]

\* the history of a spotter no call was made on
SpotNoHistory ==
    /\ wwResult = "none"
    /\ wwError = "none"
    /\ wwValue = NULL
    /\ melCount = 0
    /\ wwRead = NoRead(0)
    /\ spotFrames = 0
    /\ lastScore = NULL

\* the state WakeWordDetector.create({sensitivity}) returns
SpotCreated(sens) ==
    /\ melBuffer = <<>>
    /\ embeddingBuffer = <<>>
    /\ sensitivity = sens
    /\ wwIsReleased = FALSE
    /\ wwIsInitialized = TRUE
    /\ wwSessions = SessionsLoaded
    /\ SpotNoHistory
    /\ wwCall = [op |-> "create", len |-> 0, released |-> FALSE]
    /\ wwMade = SpotMake(sens, 0, 0)

\* no spotter exists: the program has not called create, or every call
\* failed (the fields are the initializers of the class)
SpotNotCreated ==
    /\ melBuffer = <<>>
    /\ embeddingBuffer = <<>>
    /\ sensitivity = DEFAULT_SENSITIVITY
    /\ wwIsReleased = FALSE
    /\ wwIsInitialized = FALSE
    /\ wwSessions = SessionsNull
    /\ SpotNoHistory
    /\ wwCall = [op |-> "none", len |-> 0, released |-> FALSE]
    /\ wwMade = SpotNotMade

\* WakeWordDetector.create({sensitivity}): the constructor validates, then
\* initialize() checks the model files and loads the sessions; a failed
\* call returns no detector
spotCreate(sens, missing, failing) ==
    /\ wwMade' = SpotMake(sens, missing, failing)
    /\ wwCall' = [op |-> "create", len |-> 0, released |-> FALSE]
    /\ IF SpotMake(sens, missing, failing).outcome = "ok"
       THEN /\ melBuffer' = <<>>
            /\ embeddingBuffer' = <<>>
            /\ sensitivity' = sens
            /\ wwIsReleased' = FALSE
            /\ wwIsInitialized' = TRUE
            /\ wwSessions' = SessionsLoaded
       ELSE UNCHANGED <<melBuffer, embeddingBuffer, sensitivity,
                        wwIsReleased, wwIsInitialized, wwSessions>>
    /\ wwResult' = "none"
    /\ wwError' = "none"
    /\ wwValue' = NULL
    /\ melCount' = 0
    /\ wwRead' = NoRead(0)
    /\ spotFrames' = 0
    /\ lastScore' = NULL

\* ------------------------------------------------------------------------
\* Inputs
\* ------------------------------------------------------------------------
FRAME_DURATION_MS == (VAD_FRAME_SAMPLES * 1000) \div TARGET_SAMPLE_RATE

\* samples per frame in the model (the detector reports VAD_FRAME_SAMPLES)
FrameSamples == 2

RECURSIVE Zeros(_)
Zeros(n) == IF n = 0 THEN <<>> ELSE <<0>> \o Zeros(n - 1)

ZeroFrame == Zeros(FrameSamples)

\* ------------------------------------------------------------------------
\* EmulatedChannel (the scripted audio source)
\* ------------------------------------------------------------------------
\* AUDIO_FORMAT.FRAME_LENGTH, the default frame length of a channel
AUDIO_FRAME_LENGTH == 512

\* the channel `new EmulatedChannel({audioBuffer, frameLength, realtime})`
\* returns; sleeping is the number of emitLoop calls suspended in
\* `await Bun.sleep(frameIntervalMs)`
NewChannel(buffer, frameLength, realtime) ==
    [audioBuffer   |-> buffer,
     frameCallback |-> FALSE,
     running       |-> FALSE,
     released      |-> FALSE,
     position      |-> 0,
     frameLength   |-> frameLength,
     realtime      |-> realtime,
     sleeping      |-> 0]

\* history of the channel: the frames the callback received since the last
\* start() that began a run; quiet: stop() or release() has returned and
\* start() has not begun a run since; late: the callback was invoked while
\* quiet; clean: the last start() began at position 0 with a callback and
\* no other loop pending, and no call has touched the channel since;
\* source: the buffer that start() found; inside / wokeQuiet: the callback
\* itself called stop() or release() / a suspended loop resumed while quiet;
\* op, arg, result: the last call on the channel ("wake" once a suspended
\* loop has resumed since), the buffer it was given and its outcome; from:
\* the cursor that the last reset() or setAudioBuffer() found, kept by a
\* start() that follows it at once; track: the two fields after it are
\* kept (for a channel whose buffer is only ever extended); pending: the
\* samples of the buffer the callback has not received yet, in buffer
\* order; stray: the callback received samples that were not the next
\* pending ones
NoLog ==
    [delivered |-> <<>>, quiet |-> FALSE, late |-> FALSE, clean |-> FALSE,
     source |-> <<>>, inside |-> FALSE, wokeQuiet |-> FALSE,
     op |-> "none", arg |-> <<>>, from |-> 0, result |-> "none",
     calls |-> 0, track |-> FALSE, pending |-> <<>>, stray |-> FALSE]

\* the history of a channel created with buffer, the samples followed
NewLog(buffer) == [NoLog EXCEPT !.track = TRUE, !.pending = buffer]

\* s begins with t
IsPrefix(t, s) == Len(t) <= Len(s) /\ SubSeq(s, 1, Len(t)) = t

\* the history after the callback received a frame that holds data
Received(h, data) ==
    IF ~h.track THEN h
    ELSE IF IsPrefix(data, h.pending)
    THEN [h EXCEPT !.pending = SubSeq(@, Len(data) + 1, Len(@))]
    ELSE [h EXCEPT !.stray = TRUE]

\* getProgress(), in percent (rounded down)
getProgress(c) ==
    IF Len(c.audioBuffer) = 0 THEN 100
    ELSE (c.position * 100) \div Len(c.audioBuffer)

\* Math.ceil(a / b) for a >= 0, b > 0
CeilDiv(a, b) == (a + b - 1) \div b

\* getTotalFrames()
getTotalFrames(c) == CeilDiv(Len(c.audioBuffer), c.frameLength)

\* isComplete()
isComplete(c) == c.position >= Len(c.audioBuffer)

\* variant: stop() leaves the running flag set
Stopped_StillRunning(c) == c

\* stop(): this.running = false
Stopped(c) == [c EXCEPT !.running = FALSE]

\* release()
Released(c) ==
    IF c.released THEN c
    ELSE [Stopped(c) EXCEPT !.released = TRUE, !.audioBuffer = <<>>,
                            !.frameCallback = FALSE]

\* the condition of the while loop of emitLoop
LoopAlive(c) ==
    c.running /\ ~c.released /\ c.position < Len(c.audioBuffer)

\* this.audioBuffer.slice(this.position, endPos)
FrameData(c) ==
    LET endPos == IF c.position + c.frameLength < Len(c.audioBuffer)
                  THEN c.position + c.frameLength ELSE Len(c.audioBuffer)
    IN  SubSeq(c.audioBuffer, c.position + 1, endPos)

\* variant: a short last frame is emitted as it is
PadFrame_Unpadded(data, n) == data

\* a frame of n samples: data, followed by zeros if it is shorter
PadFrame(data, n) ==
    IF Len(data) < n THEN data \o Zeros(n - Len(data)) ELSE data

\* if (this.frameCallback && this.running)
CallbackDue(c) == c.frameCallback /\ c.running

\* variant: the loop steps over one more sample than it emitted
Advance_Skipping(c) == c.position + c.frameLength + 1

\* this.position += this.frameLength
Advance(c) == c.position + c.frameLength

\* realtime && running && position < length: the loop sleeps
Paces(c) == c.realtime /\ c.running /\ c.position < Len(c.audioBuffer)

\* variant: a loop that ends leaves the running flag set
LoopEnded_StillRunning(c) == c

\* `this.running = false` behind the while loop of emitLoop
LoopEnded(c) == [c EXCEPT !.running = FALSE]

\* what the frame callback does: nothing, or on the at-th frame one run
\* of the loop hands it, a call of stop() or release() on the channel
NoPlan == [at |-> 0, op |-> "none"]

\* emitLoop, from the test of its while loop up to its next suspension or
\* its end: c is the channel, h its history, n the frames handed to the
\* callback so far in this run of the loop
RECURSIVE emitLoop(_, _, _, _)
emitLoop(c, h, plan, n) ==
    IF LoopAlive(c)
    THEN LET frame  == PadFrame(FrameData(c), c.frameLength)
             due    == CallbackDue(c)
             k      == IF due THEN n + 1 ELSE n
             acts   == due /\ plan.at = k
             h1     == IF due
                       THEN [Received(h, FrameData(c)) EXCEPT
                                      !.delivered = Append(@, frame),
                                      !.late = @ \/ h.quiet]
                       ELSE h
             c1     == IF acts /\ plan.op = "stop" THEN Stopped(c)
                       ELSE IF acts /\ plan.op = "release" THEN Released(c)
                       ELSE c
             h2     == IF acts
                       THEN [h1 EXCEPT !.quiet = TRUE, !.clean = FALSE,
                                       !.inside = TRUE]
                       ELSE h1
             c2     == [c1 EXCEPT !.position = Advance(c1)]
         IN  IF Paces(c2)
             THEN [em |-> [c2 EXCEPT !.sleeping = @ + 1], log |-> h2]
             ELSE emitLoop(c2, h2, plan, k)
    ELSE [em |-> LoopEnded(c), log |-> h]

\* one more call on the channel, with its outcome
Called(h, op, outcome) ==
    [h EXCEPT !.calls = @ + 1, !.op = op, !.arg = <<>>,
              !.from = IF op = "start" THEN @ ELSE 0, !.result = outcome]

\* variant: start() looks at the buffer before it looks at the released flag
StartOutcome_BufferFirst(c) ==
    IF c.running THEN "ok"
    ELSE IF Len(c.audioBuffer) = 0 THEN "error: no audio data"
    ELSE IF c.released THEN "error: released"
    ELSE "begin"

\* the checks of start(): it throws, returns at once, or begins a run
StartOutcome(c) ==
    IF c.released THEN "error: released"
    ELSE IF c.running THEN "ok"
    ELSE IF Len(c.audioBuffer) = 0 THEN "error: no audio data"
    ELSE "begin"

\* onFrame(callback)
emOnFrame ==
    /\ em' = [em EXCEPT !.frameCallback = TRUE]
    /\ emLog' = Called(emLog, "onFrame", "ok")

\* start(): emitLoop runs up to its first suspension before start returns
emStart(plan) ==
    IF StartOutcome(em) # "begin"
    THEN /\ emLog' = Called(emLog, "start", StartOutcome(em))
         /\ UNCHANGED em
    ELSE LET h   == [Called(emLog, "start", "ok") EXCEPT
                        !.delivered = <<>>,
                        !.quiet = FALSE,
                        !.clean = /\ em.position = 0
                                  /\ em.frameCallback
                                  /\ em.sleeping = 0,
                        !.source = em.audioBuffer]
             out == emitLoop([em EXCEPT !.running = TRUE], h, plan, 0)
         IN  /\ em' = out.em
             /\ emLog' = out.log

\* the sleep of one suspended emitLoop ends and the loop goes on
emWake(plan) ==
    /\ em.sleeping > 0
    /\ LET h   == [emLog EXCEPT !.wokeQuiet = @ \/ emLog.quiet,
                                !.op = "wake", !.arg = <<>>, !.from = 0]
           out == emitLoop([em EXCEPT !.sleeping = @ - 1], h, plan, 0)
       IN  /\ em' = out.em
           /\ emLog' = out.log

\* stop()
emStop ==
    /\ em' = Stopped(em)
    /\ emLog' = [Called(emLog, "stop", "ok") EXCEPT
                    !.quiet = TRUE, !.clean = FALSE]

\* release()
emRelease ==
    /\ em' = Released(em)
    /\ emLog' = [Called(emLog, "release", "ok") EXCEPT
                    !.quiet = TRUE, !.clean = FALSE]

\* variant: reset() leaves the cursor where it is
emReset_KeepsCursor ==
    /\ em' = em
    /\ emLog' = [Called(emLog, "reset", "ok") EXCEPT
                    !.clean = FALSE, !.from = em.position]

\* reset()
emReset ==
    /\ em' = [em EXCEPT !.position = 0]
    /\ emLog' = [Called(emLog, "reset", "ok") EXCEPT
                    !.clean = FALSE, !.from = em.position]

\* setAudioBuffer(buffer)
emSetAudioBuffer(buffer) ==
    /\ em' = [em EXCEPT !.audioBuffer = buffer, !.position = 0]
    /\ emLog' = [Called(emLog, "setAudioBuffer", "ok") EXCEPT
                    !.clean = FALSE, !.arg = buffer, !.from = em.position]

\* concatenateAudio(a, b)
concatenateAudio(a, b) == a \o b

\* prependAudio(prependBuffer)
emPrependAudio(buffer) ==
    /\ em' = [em EXCEPT
                !.audioBuffer = concatenateAudio(buffer, em.audioBuffer),
                !.position = 0]
    /\ emLog' = [Called(emLog, "prependAudio", "ok") EXCEPT
                    !.clean = FALSE, !.arg = buffer, !.from = em.position,
                    !.pending = concatenateAudio(buffer, @)]

\* appendAudio(appendBuffer)
emAppendAudio(buffer) ==
    /\ em' = [em EXCEPT
                !.audioBuffer = concatenateAudio(em.audioBuffer, buffer)]
    /\ emLog' = [Called(emLog, "appendAudio", "ok") EXCEPT
                    !.clean = FALSE, !.arg = buffer, !.from = em.position,
                    !.pending = concatenateAudio(@, buffer)]

\* ------------------------------------------------------------------------
\* MicrophoneChannel (the live audio source) and its PvRecorder
\* ------------------------------------------------------------------------
\* the channel `new MicrophoneChannel()` returns.  reading is the number of
\* recordingLoop calls suspended in `await this.recorder.read()`; starts,
\* stops and releases count the calls of recorder.start(), recorder.stop()
\* and recorder.release()
NewMicrophone ==
    [frameCallback |-> FALSE,
     running       |-> FALSE,
     released      |-> FALSE,
     reading       |-> 0,
     starts        |-> 0,
     stops         |-> 0,
     releases      |-> 0]

\* history of the microphone channel: the last call and its outcome, the
\* number of calls, the number of frames the callback received, the
\* number of reads that were in flight when stop() last cleared running and
\* have not completed yet (the recorder completes reads in the order they
\* were issued), and the number of reads completed
NoMicLog ==
    [op |-> "none", result |-> "none", calls |-> 0, delivered |-> 0,
     stale |-> 0, reads |-> 0]

\* the reads that stop() finds in flight
StaleReads(c, h) == IF c.running THEN c.reading ELSE h.stale

\* one more call on the microphone channel
MicCalled(h, op, outcome) ==
    [h EXCEPT !.calls = @ + 1, !.op = op, !.result = outcome]

\* the condition of the while loop of recordingLoop
MicLoopAlive(c) == c.running /\ ~c.released

\* stop(): a throwing recorder.stop() is caught
MicStopped(c) ==
    IF ~c.running THEN c
    ELSE [c EXCEPT !.running = FALSE, !.stops = @ + 1]

\* variant: release() has no guard and releases the recorder on every call
MicReleased_Unguarded(c) ==
    [MicStopped(c) EXCEPT !.released = TRUE, !.releases = @ + 1]

\* release(): a throwing recorder.release() is caught
MicReleased(c) ==
    IF c.released THEN c
    ELSE [MicStopped(c) EXCEPT !.released = TRUE, !.releases = @ + 1]

\* onFrame(callback)
micOnFrame ==
    mic' = [ch  |-> [mic.ch EXCEPT !.frameCallback = TRUE],
            log |-> MicCalled(mic.log, "onFrame", "ok")]

\* start(); recorderThrows: recorder.start() throws, so the exception
\* leaves start() after running was set and before recordingLoop is called
micStart(recorderThrows) ==
    IF mic.ch.released
    THEN mic' = [mic EXCEPT
                    !.log = MicCalled(@, "start", "error: released")]
    ELSE IF mic.ch.running
    THEN mic' = [mic EXCEPT !.log = MicCalled(@, "start", "ok")]
    ELSE IF recorderThrows
    THEN mic' = [ch  |-> [mic.ch EXCEPT !.running = TRUE, !.starts = @ + 1],
                 log |-> MicCalled(mic.log, "start", "error: recorder")]
    ELSE mic' = [ch  |-> [mic.ch EXCEPT !.running = TRUE, !.starts = @ + 1,
                                        !.reading = @ + 1],
                 log |-> MicCalled(mic.log, "start", "ok")]

\* the recorder.read() one recordingLoop waits for resolves with a frame or
\* rejects; the loop hands the frame to the callback and tests its
\* condition again, or leaves through the catch block
micRead(rejects) ==
    /\ mic.ch.reading > 0
    /\ LET due  == ~rejects /\ mic.ch.frameCallback /\ mic.ch.running
           goes == ~rejects /\ MicLoopAlive(mic.ch)
       IN  mic' = [ch  |-> [mic.ch EXCEPT
                              !.reading = IF goes THEN @ ELSE @ - 1],
                   log |-> [mic.log EXCEPT
                              !.op = "read",
                              !.reads = @ + 1,
                              !.stale = IF @ > 0 THEN @ - 1 ELSE 0,
                              !.delivered = IF due THEN @ + 1 ELSE @]]

\* stop() of the microphone channel
micStop ==
    mic' = [ch  |-> MicStopped(mic.ch),
            log |-> [MicCalled(mic.log, "stop", "ok") EXCEPT
                        !.stale = StaleReads(mic.ch, mic.log)]]

\* release() of the microphone channel
micRelease ==
    mic' = [ch  |-> MicReleased(mic.ch),
            log |-> [MicCalled(mic.log, "release", "ok") EXCEPT
                        !.stale = IF mic.ch.released THEN @
                                  ELSE StaleReads(mic.ch, mic.log)]]

\* ------------------------------------------------------------------------
\* PluginLoader
\* ------------------------------------------------------------------------
\* the plugin objects the program has and the tools in their tools arrays;
\* two plugins offer a tool of the same name, and no plugin offers "z"
Plugins == {"p1", "p2"}
ToolNames == {"a", "b", "c", "z"}
ToolsOf(p) == IF p = "p1" THEN {"a", "b"} ELSE {"b", "c"}

\* the ToolResult executeTool builds itself
Failure(message) == [success |-> FALSE, data |-> "none", error |-> message]

\* what a tool's execute may resolve with
ToolResults ==
    {[success |-> TRUE, data |-> "data", error |-> "none"],
     [success |-> FALSE, data |-> "none", error |-> "tool failed"]}

\* what tool.execute(params) does: it resolves with a result, rejects with
\* an Error or rejects with a value that is not an Error
ToolBehaviours ==
    [kind : {"returns"}, result : ToolResults]
        \cup {[kind |-> k, result |-> Failure("none")] :
                  k \in {"throws Error", "throws other"}}

\* history of the loader: the last call, the tool name and, in met, the
\* behaviour of the tool's execute, how its promise settled and with what, and for every plugin
\* whether setup() threw when it was last registered
NoBehaviour == [kind |-> "none", result |-> Failure("none")]

NoLoaderLog ==
    [op |-> "none", name |-> "none", met |-> NoBehaviour,
     settled |-> "none", outcome |-> Failure("none"), calls |-> 0,
     setupFailed |-> [p \in Plugins |-> FALSE]]

\* `new PluginLoader()`: plugins and tools are the keys of the two maps
\* (tools maps a name to the plugin whose tool it is); enabled is the
\* field of that name on each plugin object
NewLoader ==
    [plugins     |-> {},
     tools       |-> [n \in ToolNames |-> "none"],
     enabled     |-> [p \in Plugins |-> "unset"],
     initialized |-> FALSE,
     log         |-> NoLoaderLog]

\* the tools map after the tools of p that are not yet in it were added
RegisterTools(tools, p) ==
    [n \in ToolNames |->
        IF n \in ToolsOf(p) /\ tools[n] = "none" THEN p ELSE tools[n]]

\* registerPlugin(plugin); setup: the plugin has no setup ("none"), or its
\* setup resolves ("ok") or throws ("throws")
registerPlugin(p, setup) ==
    LET log == [ld.log EXCEPT !.op = "registerPlugin", !.name = p,
                              !.met = NoBehaviour,
                              !.settled = "resolved",
                              !.outcome = Failure("none"),
                              !.calls = @ + 1,
                              !.setupFailed[p] = (setup = "throws")]
    IN  IF setup = "throws"
        THEN ld' = [ld EXCEPT !.enabled[p] = "false", !.log = log]
        ELSE ld' = [ld EXCEPT !.enabled[p] = "true",
                              !.plugins = @ \cup {p},
                              !.tools = RegisterTools(@, p),
                              !.log = log]

\* variant: executeTool runs the tool of a disabled plugin
Disabled_Never(l, name) == FALSE

\* if (!entry.plugin.enabled)
Disabled(l, name) == l.enabled[l.tools[name]] # "true"

\* what executeTool(name, params) resolves with when the tool's execute
\* behaves as given
ExecuteOutcome(l, name, behaviour) ==
    IF l.tools[name] = "none" THEN Failure("Unknown tool")
    ELSE IF Disabled(l, name) THEN Failure("Plugin is disabled")
    ELSE IF behaviour.kind = "returns" THEN behaviour.result
    ELSE IF behaviour.kind = "throws Error" THEN Failure("execute error")
    ELSE Failure("Tool execution failed")

\* executeTool(name, params): every path of the function returns a value,
\* the call of execute is inside the try block
executeTool(name, behaviour) ==
    ld' = [ld EXCEPT !.log =
              [@ EXCEPT !.op = "executeTool", !.name = name,
                        !.met = behaviour,
                        !.settled = "resolved",
                        !.outcome = ExecuteOutcome(ld, name, behaviour),
                        !.calls = @ + 1]]

\* shutdown(): teardown errors are caught; the maps are cleared, the
\* enabled fields of the plugin objects stay
shutdown ==
    ld' = [ld EXCEPT !.plugins = {},
                     !.tools = [n \in ToolNames |-> "none"],
                     !.initialized = FALSE,
                     !.log = [@ EXCEPT !.op = "shutdown", !.name = "none",
                                       !.met = NoBehaviour,
                                       !.settled = "resolved",
                                       !.outcome = Failure("none"),
                                       !.calls = @ + 1]]

\* ------------------------------------------------------------------------
\* EndOfSpeechDetector
\* ------------------------------------------------------------------------
\* `new EndOfSpeechDetector(speechThreshold, silenceDuration, maxDuration)`;
\* status is what the last processFrame returned and calls the number of
\* processFrame calls
NewEndOfSpeech(speechThreshold, silenceDuration, maxDuration) ==
    [speechThreshold    |-> speechThreshold,
     silenceDuration    |-> silenceDuration,
     maxDuration        |-> maxDuration,
     silenceStartTime   |-> NULL,
     recordingStartTime |-> NULL,
     hasDetectedSpeech  |-> FALSE,
     status             |-> "none",
     calls              |-> 0]

\* no EndOfSpeechDetector is in use
NoEndOfSpeech == NewEndOfSpeech(0, 0, 0)

\* EndOfSpeechDetector.processFrame(voiceProbability), with the value
\* Date.now() returns
eosProcessFrame(voiceProbability, now) ==
    LET rec == IF eos.recordingStartTime = NULL THEN now
               ELSE eos.recordingStartTime
        sil == IF eos.silenceStartTime = NULL THEN now
               ELSE eos.silenceStartTime
        e   == [eos EXCEPT !.recordingStartTime = rec, !.calls = @ + 1]
    IN  eos' =
          IF now - rec > eos.maxDuration
          THEN [e EXCEPT !.status = "timeout"]
          ELSE IF voiceProbability > eos.speechThreshold
          THEN [e EXCEPT !.hasDetectedSpeech = TRUE,
                         !.silenceStartTime = NULL,
                         !.status = "continue"]
          ELSE IF ~eos.hasDetectedSpeech
          THEN [e EXCEPT !.status = "continue"]
          ELSE IF now - sil > eos.silenceDuration
          THEN [e EXCEPT !.silenceStartTime = sil, !.status = "end"]
          ELSE [e EXCEPT !.silenceStartTime = sil, !.status = "continue"]

\* ------------------------------------------------------------------------
\* LLMClient: the conversation and the tool loop
\* ------------------------------------------------------------------------
\* the names of the executors passed to chatWithAudioAndTools
Executors == {"get_weather"}

\* JSON.parse(arguments) throws: of the two texts used as
\* `function.arguments`, "{}" is JSON and "{" is not
ParseThrows(arguments) == arguments = "{"

\* a tool toolCall of an assistant message
ToolCall(id, name, arguments) ==
    [id |-> id, name |-> name, arguments |-> arguments]

\* a message of the conversation: tool_call_id and the kind of content of a
\* 'tool' message, tool_calls of an assistant message (hasCalls is FALSE
\* when the message has no tool_calls property), and, for an assistant
\* message, the finish_reason of the response that brought it
Message(role, id, content, hasCalls, calls, finish) ==
    [role |-> role, tool_call_id |-> id, content |-> content,
     hasCalls |-> hasCalls, tool_calls |-> calls, finish_reason |-> finish]

UserMessage == Message("user", 0, "audio", FALSE, <<>>, "none")
ToolMessage(id, content) == Message("tool", id, content, FALSE, <<>>, "none")

\* `new LLMClient(...)`: no messages; pc is where executeWithTools stands
\* ("idle", "request" while a sendRequest is awaited, "execute" while an
\* executor is awaited, "done" after it returned, "failed" after it threw),
\* assistantMessage and index are its locals; requests counts the requests
\* sent and sent is the number of messages the last one carried
NewClient ==
    [messages         |-> <<>>,
     pc               |-> "idle",
     assistantMessage |-> UserMessage,
     index            |-> 0,
     requests         |-> 0,
     sent             |-> 0]

\* sendRequest is called: the request carries the messages as they are
SendRequest_BeforeLastAnswer(c) ==
    [c EXCEPT !.pc = "request", !.requests = @ + 1,
              !.sent = Len(c.messages) - 1]
SendRequest(c) ==
    [c EXCEPT !.pc = "request", !.requests = @ + 1, !.sent = Len(c.messages)]

\* the 'tool' message for a call the loop answers without awaiting:
\* no executor of that name, or arguments JSON.parse throws on
Immediate(toolCall) ==
    IF toolCall.name \notin Executors
    THEN ToolMessage(toolCall.id, "unknown tool")
    ELSE ToolMessage(toolCall.id, "error")

\* the for loop over assistantMessage.tool_calls from position i up to the
\* next await: the executor of call i is awaited, or, after the last call,
\* the next request
RECURSIVE ExecuteCalls(_, _)
ExecuteCalls(c, i) ==
    IF i > Len(c.assistantMessage.tool_calls)
    THEN SendRequest([c EXCEPT !.index = 0])
    ELSE LET toolCall == c.assistantMessage.tool_calls[i]
         IN  IF toolCall.name \in Executors /\ ~ParseThrows(toolCall.arguments)
             THEN [c EXCEPT !.pc = "execute", !.index = i]
             ELSE ExecuteCalls(
                      [c EXCEPT !.messages = Append(@, Immediate(toolCall))],
                      i + 1)

\* chatWithAudioAndTools(audio, tools, executors): the user message is
\* appended and executeWithTools sends the first request
chatWithAudioAndTools ==
    /\ llm.pc \in {"idle", "done", "failed"}
    /\ llm' = SendRequest([llm EXCEPT !.messages = Append(@, UserMessage),
                                      !.index = 0])

\* the awaited sendRequest throws (timeout, HTTP error, network error)
RequestFails ==
    /\ llm.pc = "request"
    /\ llm' = [llm EXCEPT !.pc = "failed"]

\* the awaited sendRequest returns a response with this message: the test
\* of the while loop and what follows up to the next await
WhileToolCalls(message) ==
    message.finish_reason = "tool_calls" /\ message.hasCalls

ResponseArrives(message) ==
    /\ llm.pc = "request"
    /\ LET c == [llm EXCEPT !.assistantMessage = message,
                            !.messages = Append(@, message)]
       IN  llm' = IF WhileToolCalls(message)
                  THEN ExecuteCalls(c, 1)
                  ELSE [c EXCEPT !.pc = "done"]

\* the awaited executor returns a result or throws
ExecutorSettles(content) ==
    /\ llm.pc = "execute"
    /\ LET toolCall == llm.assistantMessage.tool_calls[llm.index]
           c    == [llm EXCEPT
                      !.messages = Append(@, ToolMessage(toolCall.id, content))]
       IN  llm' = ExecuteCalls(c, llm.index + 1)

\* clearHistory() between two conversations
clearHistory ==
    /\ llm.pc \in {"idle", "done", "failed"}
    /\ llm' = [llm EXCEPT !.messages = <<>>, !.pc = "idle"]

\* ------------------------------------------------------------------------
\* The callers of the detectors
\* ------------------------------------------------------------------------
\* the frame callback of testWakeWordDetection: begun counts the calls of
\* the callback, each of which calls detector.processFrame(frame), and
\* inflight those whose processFrame has not settled yet
NoDrive == [inflight |-> 0, begun |-> 0]

\* the options runFullPipeline creates its VoiceActivityDetector with
PipelineOptions ==
    [speechThreshold      |-> 50,
     silenceThreshold     |-> 35,
     silenceDuration      |-> 1000,
     maxRecordingDuration |-> 30000,
     minSpeechDuration    |-> DEFAULT_MIN_SPEECH_DURATION]

\* vadResult.audio.length < MIN_AUDIO_SAMPLES: the capture is discarded
MIN_AUDIO_SAMPLES == 8000

\* runFullPipeline.  phase: "off" (not running), "wake" (phase 1, waiting
\* for the wake word), "capture" (phase 2), "forward" (phase 3 and 4: the
\* call of the LLM client and the speaking of its answer are awaited),
\* "stopping" (the loops were left, the finally block is next), "done".
\* isRunning is the flag the SIGINT handler clears.  History: fed, the
\* frames given to the segmenter in the current capture; completed, the
\* audio of every 'end' or 'timeout' result the segmenter returned;
\* forwarded, the audio of every call of the LLM client; sent, the
\* detector the last frame of the recorder was passed to and the number
\* of samples of that frame; consumer, how the last call of the LLM
\* client (and the speaking of its answer) went
NoPipeline ==
    [phase |-> "off", isRunning |-> FALSE, fed |-> 0,
     completed |-> <<>>, forwarded |-> <<>>,
     sent |-> [to |-> "none", len |-> 0], consumer |-> "none"]

\* `new PvRecorder(wakeWordDetector.getFrameLength(), deviceIndex)`: the
\* length of every frame recorder.read() returns
recorderFrameLength == FRAME_LENGTH

\* vadResult.audio.length: every frame of the model stands for one frame
\* of the recorder
AudioLength(audio) == (Len(audio) \div FrameSamples) * recorderFrameLength

\* variant: no capture is too short
TooShort_Never(hasAudio, audio) == FALSE

\* `!vadResult?.audio || vadResult.audio.length < 8000`
TooShort(hasAudio, audio) ==
    ~hasAudio \/ AudioLength(audio) < MIN_AUDIO_SAMPLES

\* the application objects are not in use
AppUnused ==
    /\ ld = NewLoader /\ drv = NoDrive /\ pipe = NoPipeline
    /\ eos = NoEndOfSpeech /\ llm = NewClient

\* no channel is in use
SourceUnused ==
    /\ em = NewChannel(<<>>, AUDIO_FRAME_LENGTH, TRUE)
    /\ emLog = NoLog
    /\ mic = [ch |-> NewMicrophone, log |-> NoMicLog]

\* no trace is being replayed through fresh detectors
NoReplay ==
    [run |-> 0, pos |-> 0, trace |-> <<>>, first |-> <<>>, second |-> <<>>]

\* probabilities: silence, between the two thresholds, speech
Probabilities == {20, 40, 80}

\* milliseconds between two calls of Date.now()
Elapsed == {100, 30000}

\* no scripted trace is being replayed
NoScenario == [n |-> 0, pos |-> 0, ends |-> 0, timeouts |-> 0]

\* ------------------------------------------------------------------------
\* Timing of the segmenter: any probability trace, frames 100 ms apart or
\* after a long pause
\* ------------------------------------------------------------------------
InitSeg ==
    /\ clock = 1000
    /\ SourceUnused
    /\ rep = NoReplay
    /\ AppUnused
    /\ SpotCreated(DEFAULT_SENSITIVITY)
    /\ scen = NoScenario
    /\ \E o \in {DefaultOptions, ShortOptions} : Created(o)

SegFrame ==
    /\ frames < MaxFrames
    /\ \E p \in Probabilities, d \in Elapsed :
          processFrame(ZeroFrame, p, clock + d)
    /\ UNCHANGED <<scen, spotVars, srcVars, rep, appVars>>

SegReset == reset /\ UNCHANGED <<scen, spotVars, srcVars, rep, appVars>>

SegRelease ==
    /\ \E pauseThrows \in BOOLEAN : release(pauseThrows)
    /\ UNCHANGED <<scen, spotVars, srcVars, rep, appVars>>

NextSeg == SegFrame \/ SegReset \/ SegRelease

SpecSeg == InitSeg /\ [][NextSeg]_vars

\* ------------------------------------------------------------------------
\* Audio of the segmenter: frames of different contents and lengths
\* ------------------------------------------------------------------------
MaxAudioFrames == 5

\* an all-zero frame of the required length and a shorter non-zero frame
\* (processFrame does not check the length)
AudioFrames == {ZeroFrame, <<3>>}

InitAudio == InitSeg

AudioFrame ==
    /\ frames < MaxAudioFrames
    /\ \E f \in AudioFrames, p \in {20, 80}, d \in Elapsed :
          processFrame(f, p, clock + d)
    /\ UNCHANGED <<scen, spotVars, srcVars, rep, appVars>>

AudioReset == reset /\ UNCHANGED <<scen, spotVars, srcVars, rep, appVars>>

AudioRelease ==
    /\ \E pauseThrows \in BOOLEAN : release(pauseThrows)
    /\ UNCHANGED <<scen, spotVars, srcVars, rep, appVars>>

NextAudio == AudioFrame \/ AudioReset \/ AudioRelease

SpecAudio == InitAudio /\ [][NextAudio]_vars

\* ------------------------------------------------------------------------
\* Scenario B: 5 low frames, 5 high frames, then
\* silenceDuration / frameDuration + 2 low frames (700 / 96 + 2 is between
\* 9 and 10), one frame every FRAME_DURATION_MS, default options
\* ------------------------------------------------------------------------
ScenarioLow == 5
ScenarioHigh == 5

\* frame k of the scenario: every sample is k, so that frames differ
FrameOf(k) == [i \in 1..FrameSamples |-> k]

RECURSIVE FramesAudio(_, _)
FramesAudio(a, b) == IF a > b THEN <<>> ELSE FrameOf(a) \o FramesAudio(a + 1, b)

ScenarioLength == ScenarioLow + ScenarioHigh + scen.n

InitScenarioB ==
    /\ clock \in {1000, 1001}
    /\ \E n \in { DEFAULT_SILENCE_DURATION \div FRAME_DURATION_MS + 2,
                  DEFAULT_SILENCE_DURATION \div FRAME_DURATION_MS + 3 } :
          scen = [n |-> n, pos |-> 0, ends |-> 0, timeouts |-> 0]
    /\ Created(DefaultOptions)
    /\ SpotCreated(DEFAULT_SENSITIVITY)
    /\ SourceUnused
    /\ rep = NoReplay
    /\ AppUnused

ScenarioFrame ==
    /\ scen.pos < ScenarioLength
    /\ LET k    == scen.pos + 1
           high == k > ScenarioLow /\ k <= ScenarioLow + ScenarioHigh
       IN  \E p \in (IF high THEN {60, 80} ELSE {20, 40}) :
              processFrame(FrameOf(k), p, clock + FRAME_DURATION_MS)
    /\ scen' = [scen EXCEPT !.pos = @ + 1,
                            !.ends = IF result'.status = "end"
                                     THEN @ + 1 ELSE @,
                            !.timeouts = IF result'.status = "timeout"
                                         THEN @ + 1 ELSE @]
    /\ UNCHANGED <<spotVars, srcVars, rep, appVars>>

NextScenarioB == ScenarioFrame

SpecScenarioB == InitScenarioB /\ [][NextScenarioB]_vars

\* ------------------------------------------------------------------------
\* The spotter alone: frames of the right and of a wrong length, any score
\* ------------------------------------------------------------------------
MaxSpotFrames == 45

Scores == {10, 50, 90}

InitSpot ==
    /\ clock = 1000
    /\ SourceUnused
    /\ rep = NoReplay
    /\ AppUnused
    /\ scen = NoScenario
    /\ Created(DefaultOptions)
    /\ SpotCreated(DEFAULT_SENSITIVITY)

SpotFrame ==
    /\ spotFrames < MaxSpotFrames
    /\ \E len \in {FRAME_LENGTH, 512}, score \in Scores :
          spotProcessFrame(len, MEL_FRAMES_PER_CHUNK, score)
    /\ UNCHANGED <<segVars, scen, srcVars, rep, appVars>>

SpotReset == spotReset /\ UNCHANGED <<segVars, scen, srcVars, rep, appVars>>

\* every session releases without an error
SpotRelease == spotRelease("none") /\ UNCHANGED <<segVars, scen, srcVars, rep, appVars>>

NextSpot == SpotFrame \/ SpotReset \/ SpotRelease

SpecSpot == InitSpot /\ [][NextSpot]_vars

\* ------------------------------------------------------------------------
\* Creation and life cycle of the two detectors: create with valid and
\* invalid options, a few frames, reset, the getters and release, where
\* the engine, a model file or a session may fail
\* ------------------------------------------------------------------------
MaxLifeFrames == 1

\* options with each field valid or invalid
LifeOptions ==
    [speechThreshold      : {-10, DEFAULT_SPEECH_THRESHOLD, 150},
     silenceThreshold     : {DEFAULT_SILENCE_THRESHOLD, 150},
     silenceDuration      : {-100, 100},
     maxRecordingDuration : {-1, 500},
     minSpeechDuration    : {-1, 0}]

\* sensitivities below, in and above [0, 1]
LifeSensitivities == {-10, 0, DEFAULT_SENSITIVITY, 100, 150}

\* which session's release() rejects
SessionFailures == {"none", "mel", "embedding", "wakeWord"}

InitLife ==
    /\ clock = 1000
    /\ SourceUnused
    /\ rep = NoReplay
    /\ AppUnused
    /\ scen = NoScenario
    /\ NotCreated
    /\ SpotNotCreated

\* the program has a segmenter / a spotter to call
HasSegmenter == made.outcome = "ok"
HasSpotter == wwMade.outcome = "ok"

LifeSegCreate ==
    /\ ~HasSegmenter
    /\ \E o \in LifeOptions, engineFails \in BOOLEAN : create(o, engineFails)
    /\ UNCHANGED <<scen, spotVars, srcVars, rep, appVars>>

LifeSegFrame ==
    /\ HasSegmenter
    /\ frames < MaxLifeFrames
    /\ \E p \in {20, 80} : processFrame(ZeroFrame, p, clock + 100)
    /\ UNCHANGED <<scen, spotVars, srcVars, rep, appVars>>

LifeSegReset == HasSegmenter /\ reset /\ UNCHANGED <<scen, spotVars, srcVars, rep, appVars>>

LifeSegGetFrameLength ==
    HasSegmenter /\ getFrameLength /\ UNCHANGED <<scen, spotVars, srcVars, rep, appVars>>

LifeSegGetSampleRate ==
    HasSegmenter /\ getSampleRate /\ UNCHANGED <<scen, spotVars, srcVars, rep, appVars>>

LifeSegRelease ==
    /\ HasSegmenter
    /\ \E pauseThrows \in BOOLEAN : release(pauseThrows)
    /\ UNCHANGED <<scen, spotVars, srcVars, rep, appVars>>

LifeSpotCreate ==
    /\ ~HasSpotter
    /\ \E sens \in LifeSensitivities, missing \in 0..3, failing \in 0..3 :
          spotCreate(sens, missing, failing)
    /\ UNCHANGED <<segVars, scen, srcVars, rep, appVars>>

LifeSpotFrame ==
    /\ HasSpotter
    /\ spotFrames < MaxLifeFrames
    /\ \E len \in {FRAME_LENGTH, 512} :
          spotProcessFrame(len, MEL_FRAMES_PER_CHUNK, 90)
    /\ UNCHANGED <<segVars, scen, srcVars, rep, appVars>>

LifeSpotReset == HasSpotter /\ spotReset /\ UNCHANGED <<segVars, scen, srcVars, rep, appVars>>

LifeSpotGetFrameLength ==
    HasSpotter /\ spotGetFrameLength /\ UNCHANGED <<segVars, scen, srcVars, rep, appVars>>

LifeSpotGetSampleRate ==
    HasSpotter /\ spotGetSampleRate /\ UNCHANGED <<segVars, scen, srcVars, rep, appVars>>

LifeSpotRelease ==
    /\ HasSpotter
    /\ \E fails \in SessionFailures : spotRelease(fails)
    /\ UNCHANGED <<segVars, scen, srcVars, rep, appVars>>

NextLife ==
    \/ LifeSegCreate \/ LifeSegFrame \/ LifeSegReset
    \/ LifeSegGetFrameLength \/ LifeSegGetSampleRate \/ LifeSegRelease
    \/ LifeSpotCreate \/ LifeSpotFrame \/ LifeSpotReset
    \/ LifeSpotGetFrameLength \/ LifeSpotGetSampleRate \/ LifeSpotRelease

SpecLife == InitLife /\ [][NextLife]_vars

\* ------------------------------------------------------------------------
\* The scripted source alone: any buffer and frame length, paced or fast,
\* calls in any order, between two frames or from inside the callback
\* ------------------------------------------------------------------------
MaxSamples == 5
MaxFrameLength == 3
MaxSourceCalls == 5

\* a buffer of n samples, all different and none zero
Samples(n) == [i \in 1..n |-> i]

\* what the callback may do during one run of the loop
CallbackPlans ==
    {NoPlan} \cup [at : 1..MaxSamples, op : {"stop", "release"}]

InitSource ==
    /\ clock = 1000
    /\ scen = NoScenario
    /\ rep = NoReplay
    /\ AppUnused
    /\ Created(DefaultOptions)
    /\ SpotCreated(DEFAULT_SENSITIVITY)
    /\ \E n \in 0..MaxSamples, f \in 1..MaxFrameLength, r \in BOOLEAN :
          em = NewChannel(Samples(n), f, r)
    /\ emLog = NoLog
    /\ mic = [ch |-> NewMicrophone, log |-> NoMicLog]

SourceCall == emLog.calls < MaxSourceCalls

SourceOnFrame ==
    SourceCall /\ emOnFrame /\ UNCHANGED <<segVars, scen, spotVars, rep, mic, appVars>>

SourceStart ==
    /\ SourceCall
    /\ \E plan \in CallbackPlans : emStart(plan)
    /\ UNCHANGED <<segVars, scen, spotVars, rep, mic, appVars>>

SourceWake ==
    /\ \E plan \in CallbackPlans : emWake(plan)
    /\ UNCHANGED <<segVars, scen, spotVars, rep, mic, appVars>>

SourceStop ==
    SourceCall /\ emStop /\ UNCHANGED <<segVars, scen, spotVars, rep, mic, appVars>>

SourceRelease ==
    SourceCall /\ emRelease /\ UNCHANGED <<segVars, scen, spotVars, rep, mic, appVars>>

SourceReset ==
    SourceCall /\ emReset /\ UNCHANGED <<segVars, scen, spotVars, rep, mic, appVars>>

SourceSetAudioBuffer ==
    /\ SourceCall
    /\ \E n \in {0, 2} : emSetAudioBuffer(Samples(n))
    /\ UNCHANGED <<segVars, scen, spotVars, rep, mic, appVars>>

NextSource ==
    \/ SourceOnFrame \/ SourceStart \/ SourceWake \/ SourceStop
    \/ SourceRelease \/ SourceReset \/ SourceSetAudioBuffer

SpecSource == InitSource /\ [][NextSource]_vars

\* ------------------------------------------------------------------------
\* Shutdown: the two detectors, a scripted source and a microphone
\* channel, each used a little and then stopped and released any number of
\* times.  The four objects share no state and one thread makes the calls,
\* so calls on different objects commute: the program shuts them down one
\* after the other, as the finally blocks of the demos do (the calls on an
\* object end when the first call on the next one is made), while a
\* suspended loop of a source may resume at any time
\* ------------------------------------------------------------------------
MaxShutdownFrames == 1
MaxShutdownCalls == 3
MaxShutdownReads == 1

InitShutdown ==
    /\ clock = 1000
    /\ scen = NoScenario
    /\ rep = NoReplay
    /\ AppUnused
    /\ Created(ShortOptions)
    /\ SpotCreated(DEFAULT_SENSITIVITY)
    /\ \E r \in BOOLEAN : em = NewChannel(Samples(2), 1, r)
    /\ emLog = NoLog
    /\ mic = [ch |-> NewMicrophone, log |-> NoMicLog]

ShutSegFrame ==
    /\ wwCall.op = "create"
    /\ frames < MaxShutdownFrames
    /\ processFrame(ZeroFrame, 80, clock + 100)
    /\ UNCHANGED <<scen, spotVars, srcVars, rep, appVars>>

ShutSegRelease ==
    /\ wwCall.op = "create"
    /\ \E pauseThrows \in BOOLEAN : release(pauseThrows)
    /\ UNCHANGED <<scen, spotVars, srcVars, rep, appVars>>

ShutSpotFrame ==
    /\ isReleased /\ emLog.calls = 0
    /\ spotFrames < MaxShutdownFrames
    /\ spotProcessFrame(FRAME_LENGTH, MEL_FRAMES_PER_CHUNK, 10)
    /\ UNCHANGED <<segVars, scen, srcVars, rep, appVars>>

ShutSpotRelease ==
    /\ isReleased /\ emLog.calls = 0
    /\ \E fails \in SessionFailures : spotRelease(fails)
    /\ UNCHANGED <<segVars, scen, srcVars, rep, appVars>>

ShutSourceCall ==
    wwIsReleased /\ mic.log.calls = 0 /\ emLog.calls < MaxShutdownCalls

ShutSourceStart ==
    /\ ShutSourceCall
    /\ emStart(NoPlan)
    /\ UNCHANGED <<segVars, scen, spotVars, rep, mic, appVars>>

ShutSourceWake ==
    emWake(NoPlan) /\ UNCHANGED <<segVars, scen, spotVars, rep, mic, appVars>>

ShutSourceStop ==
    /\ ShutSourceCall
    /\ emStop
    /\ UNCHANGED <<segVars, scen, spotVars, rep, mic, appVars>>

ShutSourceRelease ==
    /\ ShutSourceCall
    /\ emRelease
    /\ UNCHANGED <<segVars, scen, spotVars, rep, mic, appVars>>

ShutMicCall == em.released /\ mic.log.calls < MaxShutdownCalls

ShutMicStart ==
    /\ ShutMicCall
    /\ \E recorderThrows \in BOOLEAN : micStart(recorderThrows)
    /\ UNCHANGED <<segVars, scen, spotVars, rep, em, emLog, appVars>>

ShutMicRead ==
    /\ mic.log.reads < MaxShutdownReads
    /\ \E rejects \in BOOLEAN : micRead(rejects)
    /\ UNCHANGED <<segVars, scen, spotVars, rep, em, emLog, appVars>>

ShutMicStop ==
    /\ ShutMicCall
    /\ micStop
    /\ UNCHANGED <<segVars, scen, spotVars, rep, em, emLog, appVars>>

ShutMicRelease ==
    /\ ShutMicCall
    /\ micRelease
    /\ UNCHANGED <<segVars, scen, spotVars, rep, em, emLog, appVars>>

NextShutdown ==
    \/ ShutSegFrame \/ ShutSegRelease \/ ShutSpotFrame \/ ShutSpotRelease
    \/ ShutSourceStart \/ ShutSourceWake \/ ShutSourceStop
    \/ ShutSourceRelease
    \/ ShutMicStart \/ ShutMicRead \/ ShutMicStop \/ ShutMicRelease

SpecShutdown == InitShutdown /\ [][NextShutdown]_vars

\* ------------------------------------------------------------------------
\* The plugin loader alone: plugins registered (again and again, with a
\* setup that works or throws), tools executed by any name, shutdown
\* ------------------------------------------------------------------------
MaxLoaderCalls == 4

InitLoader ==
    /\ clock = 1000
    /\ scen = NoScenario
    /\ rep = NoReplay
    /\ SourceUnused
    /\ Created(DefaultOptions)
    /\ SpotCreated(DEFAULT_SENSITIVITY)
    /\ AppUnused

LoaderCall == ld.log.calls < MaxLoaderCalls

LoaderRegister ==
    /\ LoaderCall
    /\ \E p \in Plugins, setup \in {"none", "ok", "throws"} :
          registerPlugin(p, setup)
    /\ UNCHANGED <<segVars, scen, spotVars, srcVars, rep, drv, pipe, eos, llm>>

LoaderExecute ==
    /\ LoaderCall
    /\ \E name \in ToolNames, behaviour \in ToolBehaviours :
          executeTool(name, behaviour)
    /\ UNCHANGED <<segVars, scen, spotVars, srcVars, rep, drv, pipe, eos, llm>>

LoaderShutdown ==
    /\ LoaderCall
    /\ shutdown
    /\ UNCHANGED <<segVars, scen, spotVars, srcVars, rep, drv, pipe, eos, llm>>

NextLoader == LoaderRegister \/ LoaderExecute \/ LoaderShutdown

SpecLoader == InitLoader /\ [][NextLoader]_vars

\* ------------------------------------------------------------------------
\* A scripted source drives the spotter, as testWakeWordDetection does:
\* the callback is registered, the channel started, and every frame the
\* channel hands over begins a processFrame that settles later.  The
\* channel is built with the frame length of the detector.  What a
\* processFrame does after its first await is taken as one step
\* ------------------------------------------------------------------------
MaxDriveFrames == 5

InitDrive ==
    /\ clock = 1000
    /\ scen = NoScenario
    /\ rep = NoReplay
    /\ Created(DefaultOptions)
    /\ SpotCreated(DEFAULT_SENSITIVITY)
    /\ \E n \in 1..(MaxDriveFrames * FrameSamples), r \in BOOLEAN :
          em = NewChannel(Samples(n), FrameSamples, r)
    /\ emLog = NoLog
    /\ mic = [ch |-> NewMicrophone, log |-> NoMicLog]
    /\ AppUnused

\* the callback ran once for every frame the step delivered: each run
\* calls detector.processFrame(frame), which suspends in its first await
Delivered(before, after) ==
    [drv EXCEPT !.inflight = @ + (Len(after) - Len(before)),
                !.begun = @ + (Len(after) - Len(before))]

\* channel.onFrame(async (frame) => { ... })
DriveOnFrame ==
    /\ emLog.calls = 0
    /\ emOnFrame
    /\ UNCHANGED <<segVars, scen, spotVars, rep, mic, appVars>>

\* channel.start()
DriveStart ==
    /\ emLog.calls = 1
    /\ emStart(NoPlan)
    /\ drv' = Delivered(<<>>, emLog'.delivered)
    /\ UNCHANGED <<segVars, scen, spotVars, rep, mic, ld, pipe, eos, llm>>

\* the sleep of the emission loop ends
DriveWake ==
    /\ emWake(NoPlan)
    /\ drv' = Delivered(emLog.delivered, emLog'.delivered)
    /\ UNCHANGED <<segVars, scen, spotVars, rep, mic, ld, pipe, eos, llm>>

\* one processFrame that was begun runs to its end
DriveSettle ==
    /\ drv.inflight > 0
    /\ \E score \in Scores :
          spotProcessFrame(FRAME_LENGTH, MEL_FRAMES_PER_CHUNK, score)
    /\ drv' = [drv EXCEPT !.inflight = @ - 1]
    /\ UNCHANGED <<segVars, scen, srcVars, rep, ld, pipe, eos, llm>>

NextDrive == DriveOnFrame \/ DriveStart \/ DriveWake \/ DriveSettle

SpecDrive == InitDrive /\ [][NextDrive]_vars

\* ------------------------------------------------------------------------
\* The two end-of-speech detectors side by side: a VoiceActivityDetector
\* with minSpeechDuration 0 and an EndOfSpeechDetector with the same speech
\* threshold, silence duration and maximum duration are given the same
\* probability at the same time, frame after frame, until one of them
\* returns 'end' or 'timeout'
\* ------------------------------------------------------------------------
MaxTwinFrames == 11

\* the default options and the short ones, without a minimum of speech
TwinOptions ==
    {[DefaultOptions EXCEPT !.minSpeechDuration = 0], ShortOptions}

InitTwin ==
    /\ clock = 1000
    /\ scen = NoScenario
    /\ rep = NoReplay
    /\ SourceUnused
    /\ SpotCreated(DEFAULT_SENSITIVITY)
    /\ ld = NewLoader
    /\ drv = NoDrive
    /\ pipe = NoPipeline
    /\ llm = NewClient
    /\ \E o \in TwinOptions :
          /\ Created(o)
          /\ eos = NewEndOfSpeech(o.speechThreshold, o.silenceDuration,
                                  o.maxRecordingDuration)

TwinFrame ==
    /\ frames < MaxTwinFrames
    /\ result.status \notin {"end", "timeout"}
    /\ eos.status \notin {"end", "timeout"}
    /\ \E p \in Probabilities, d \in Elapsed :
          /\ processFrame(ZeroFrame, p, clock + d)
          /\ eosProcessFrame(p, clock + d)
    /\ UNCHANGED <<scen, spotVars, srcVars, rep, ld, drv, pipe, llm>>

NextTwin == TwinFrame

SpecTwin == InitTwin /\ [][NextTwin]_vars

\* ------------------------------------------------------------------------
\* An LLMClient in conversations with tools: the responses are any the
\* server can give, with zero to MaxToolCalls tool calls whose ids are
\* unique in the conversation
\* ------------------------------------------------------------------------
MaxToolCalls == 2
MaxLlmRequests == 2

FinishReasons == {"tool_calls", "stop"}

\* the calls a response can ask for: a tool with an executor, with
\* arguments that parse or do not, and a tool without executor
CallKinds == {<<"get_weather", "{}">>, <<"get_weather", "{">>,
              <<"get_time", "{}">>}

\* the tool_calls of a response, before the ids are given
ResponseCalls ==
    UNION {[1..n -> CallKinds] : n \in 0..MaxToolCalls}

CallsOf(r, f) ==
    [j \in 1..Len(f) |-> ToolCall(10 * r + j, f[j][1], f[j][2])]

InitLlm ==
    /\ Created(DefaultOptions)
    /\ clock = 1000
    /\ scen = NoScenario
    /\ rep = NoReplay
    /\ SourceUnused
    /\ SpotCreated(DEFAULT_SENSITIVITY)
    /\ AppUnused

LlmUnchanged == UNCHANGED <<segVars, scen, spotVars, srcVars, rep, ld, drv,
                            pipe, eos>>

LlmChat ==
    /\ llm.requests < MaxLlmRequests
    /\ chatWithAudioAndTools
    /\ LlmUnchanged

LlmRequestFails == RequestFails /\ LlmUnchanged

LlmResponse ==
    /\ \E finish \in FinishReasons, hasCalls \in BOOLEAN,
          f \in ResponseCalls :
          /\ hasCalls \/ f = <<>>
          /\ finish = "tool_calls" \/ Len(f) <= 1
          /\ llm.requests < MaxLlmRequests \/ finish # "tool_calls"
                \/ ~hasCalls
          /\ ResponseArrives(Message("assistant", 0, "text", hasCalls,
                                     CallsOf(llm.requests, f), finish))
    /\ LlmUnchanged

LlmExecutor ==
    /\ \E content \in {"result", "error"} : ExecutorSettles(content)
    /\ LlmUnchanged

LlmClearHistory ==
    /\ llm.messages # <<>>
    /\ clearHistory
    /\ LlmUnchanged

NextLlm ==
    \/ LlmChat
    \/ LlmRequestFails
    \/ LlmResponse
    \/ LlmExecutor
    \/ LlmClearHistory

SpecLlm == InitLlm /\ [][NextLlm]_vars

\* ------------------------------------------------------------------------
\* A scripted source that is started and never stopped: a callback may be
\* registered, start() and reset() are called a few times, and the pacing
\* delay of a suspended loop always ends (Bun.sleep resolves)
\* ------------------------------------------------------------------------
MaxPlaySamples == 4
MaxPlayCalls == 3

InitPlay ==
    /\ clock = 1000
    /\ scen = NoScenario
    /\ rep = NoReplay
    /\ AppUnused
    /\ Created(DefaultOptions)
    /\ SpotCreated(DEFAULT_SENSITIVITY)
    /\ \E n \in 1..MaxPlaySamples, f \in 1..2, r \in BOOLEAN :
          em = NewChannel(Samples(n), f, r)
    /\ emLog = NoLog
    /\ mic = [ch |-> NewMicrophone, log |-> NoMicLog]

PlayCall == emLog.calls < MaxPlayCalls

PlayOnFrame ==
    PlayCall /\ emOnFrame /\ UNCHANGED <<segVars, scen, spotVars, rep, mic, appVars>>

PlayStart ==
    PlayCall /\ emStart(NoPlan) /\ UNCHANGED <<segVars, scen, spotVars, rep, mic, appVars>>

PlayWake ==
    emWake(NoPlan) /\ UNCHANGED <<segVars, scen, spotVars, rep, mic, appVars>>

PlayReset ==
    PlayCall /\ emReset /\ UNCHANGED <<segVars, scen, spotVars, rep, mic, appVars>>

NextPlay == PlayOnFrame \/ PlayStart \/ PlayWake \/ PlayReset

SpecPlay == InitPlay /\ [][NextPlay]_vars /\ WF_vars(PlayWake)

\* ------------------------------------------------------------------------
\* A scripted source that is played, extended and played on: a callback is
\* registered first; the source is started, stopped, woken, and audio is
\* put before or behind its buffer at any time
\* ------------------------------------------------------------------------
MaxExtendSamples == 3
MaxExtendCalls == 5

\* the audio that is added: samples that differ from those of the buffer
Added(n) == [i \in 1..n |-> 10 + i]

InitExtend ==
    /\ clock = 1000
    /\ scen = NoScenario
    /\ rep = NoReplay
    /\ AppUnused
    /\ Created(DefaultOptions)
    /\ SpotCreated(DEFAULT_SENSITIVITY)
    /\ \E n \in 1..MaxExtendSamples, f \in 1..2, r \in BOOLEAN :
          /\ em = NewChannel(Samples(n), f, r)
          /\ emLog = NewLog(Samples(n))
    /\ mic = [ch |-> NewMicrophone, log |-> NoMicLog]

ExtendCall == emLog.calls > 0 /\ emLog.calls < MaxExtendCalls

ExtendOnFrame ==
    /\ emLog.calls = 0
    /\ emOnFrame
    /\ UNCHANGED <<segVars, scen, spotVars, rep, mic, appVars>>

ExtendStart ==
    /\ ExtendCall
    /\ \E plan \in {NoPlan, [at |-> 1, op |-> "stop"]} : emStart(plan)
    /\ UNCHANGED <<segVars, scen, spotVars, rep, mic, appVars>>

ExtendWake ==
    /\ emWake(NoPlan)
    /\ UNCHANGED <<segVars, scen, spotVars, rep, mic, appVars>>

ExtendStop ==
    /\ ExtendCall
    /\ emStop
    /\ UNCHANGED <<segVars, scen, spotVars, rep, mic, appVars>>

ExtendPrepend ==
    /\ ExtendCall
    /\ \E n \in 1..2 : emPrependAudio(Added(n))
    /\ UNCHANGED <<segVars, scen, spotVars, rep, mic, appVars>>

ExtendAppend ==
    /\ ExtendCall
    /\ \E n \in 1..2 : emAppendAudio(Added(n))
    /\ UNCHANGED <<segVars, scen, spotVars, rep, mic, appVars>>

NextExtend ==
    \/ ExtendOnFrame \/ ExtendStart \/ ExtendWake \/ ExtendStop
    \/ ExtendPrepend \/ ExtendAppend

SpecExtend == InitExtend /\ [][NextExtend]_vars

\* ------------------------------------------------------------------------
\* The microphone channel alone: any calls, the recorder's reads complete
\* with a frame or with an error at any time
\* ------------------------------------------------------------------------
MaxLiveCalls == 5
MaxLiveReads == 3

InitLive ==
    /\ clock = 1000
    /\ scen = NoScenario
    /\ rep = NoReplay
    /\ AppUnused
    /\ Created(DefaultOptions)
    /\ SpotCreated(DEFAULT_SENSITIVITY)
    /\ SourceUnused

LiveCall == mic.log.calls < MaxLiveCalls

LiveOnFrame ==
    /\ LiveCall
    /\ micOnFrame
    /\ UNCHANGED <<segVars, scen, spotVars, rep, em, emLog, appVars>>

LiveStart ==
    /\ LiveCall
    /\ \E recorderThrows \in BOOLEAN : micStart(recorderThrows)
    /\ UNCHANGED <<segVars, scen, spotVars, rep, em, emLog, appVars>>

LiveRead ==
    /\ mic.log.reads < MaxLiveReads
    /\ \E rejects \in BOOLEAN : micRead(rejects)
    /\ UNCHANGED <<segVars, scen, spotVars, rep, em, emLog, appVars>>

LiveStop ==
    /\ LiveCall
    /\ micStop
    /\ UNCHANGED <<segVars, scen, spotVars, rep, em, emLog, appVars>>

LiveRelease ==
    /\ LiveCall
    /\ micRelease
    /\ UNCHANGED <<segVars, scen, spotVars, rep, em, emLog, appVars>>

NextLive ==
    LiveOnFrame \/ LiveStart \/ LiveRead \/ LiveStop \/ LiveRelease

SpecLive == InitLive /\ [][NextLive]_vars

\* ------------------------------------------------------------------------
\* The spotter over two detections: frames of the right length only, a
\* low or a high score whenever the wake word model runs, reset() at any
\* time
\* ------------------------------------------------------------------------
MaxTriggerFrames == 82

InitTrigger ==
    /\ clock = 1000
    /\ SourceUnused
    /\ rep = NoReplay
    /\ AppUnused
    /\ scen = NoScenario
    /\ Created(DefaultOptions)
    /\ SpotCreated(DEFAULT_SENSITIVITY)

TriggerFrame ==
    /\ spotFrames < MaxTriggerFrames
    /\ \E score \in {10, 90} :
          spotProcessFrame(FRAME_LENGTH, MEL_FRAMES_PER_CHUNK, score)
    /\ UNCHANGED <<segVars, scen, srcVars, rep, appVars>>

TriggerReset ==
    /\ spotFrames < MaxTriggerFrames
    /\ spotReset
    /\ UNCHANGED <<segVars, scen, srcVars, rep, appVars>>

NextTrigger == TriggerFrame \/ TriggerReset

SpecTrigger == InitTrigger /\ [][NextTrigger]_vars

\* ------------------------------------------------------------------------
\* runFullPipeline: the recorder's frames go to the spotter until it
\* detects, then to the segmenter until the capture is over; the audio goes
\* to the LLM client and the loop starts again.  SIGINT may arrive during
\* any await; the detectors' inferences and Date.now() are inputs
\* ------------------------------------------------------------------------
MaxPipeWakeFrames == 42
MaxPipeCaptureFrames == 8

\* milliseconds between two frames of a capture
PipeElapsed == {1000, 30000}

\* the detectors are created and `isRunning = true`
InitPipeline ==
    /\ clock = 1000
    /\ scen = NoScenario
    /\ rep = NoReplay
    /\ SourceUnused
    /\ Created(PipelineOptions)
    /\ SpotCreated(DEFAULT_SENSITIVITY)
    /\ ld = NewLoader
    /\ drv = NoDrive
    /\ pipe = [NoPipeline EXCEPT !.phase = "wake", !.isRunning = TRUE]
    /\ eos = NoEndOfSpeech
    /\ llm = NewClient

\* one turn of the phase 1 loop, and what follows it when the loop ends:
\* `if (!isRunning) break; vad.reset()`
PipeWakeFrame ==
    /\ pipe.phase = "wake"
    /\ spotFrames < MaxPipeWakeFrames
    /\ \E score \in {10, 90}, interrupted \in BOOLEAN :
          LET was == [pipe EXCEPT !.sent = [to  |-> "spotter",
                                            len |-> recorderFrameLength]]
          IN  /\ spotProcessFrame(recorderFrameLength,
                                  MEL_FRAMES_PER_CHUNK, score)
              /\ IF wwResult' = "error"
                 THEN /\ pipe' = [was EXCEPT !.phase = "stopping",
                                             !.isRunning = ~interrupted]
                      /\ UNCHANGED segVars
                 ELSE IF interrupted
                 THEN /\ pipe' = [was EXCEPT !.phase = "stopping",
                                             !.isRunning = FALSE]
                      /\ UNCHANGED segVars
                 ELSE IF wwResult' = "true"
                 THEN /\ pipe' = [was EXCEPT !.phase = "capture",
                                             !.fed = 0]
                      /\ reset
                 ELSE /\ pipe' = was
                      /\ UNCHANGED segVars
    /\ UNCHANGED <<scen, srcVars, rep, ld, drv, eos, llm>>

\* one turn of the phase 2 loop, and what follows it when the loop ends:
\* `if (!isRunning) break`, the test of the audio's length, and the call
\* of the LLM client up to its await
PipeCaptureFrame ==
    /\ pipe.phase = "capture"
    /\ frames < MaxPipeCaptureFrames
    /\ \E p \in {20, 80}, d \in PipeElapsed, interrupted \in BOOLEAN :
          /\ processFrame(FrameOf(pipe.fed + 1), p, clock + d)
          /\ LET over == result'.status \in {"end", "timeout"}
                 done == IF over THEN Append(pipe.completed, result'.audio)
                         ELSE pipe.completed
                 was  == [pipe EXCEPT
                            !.sent = [to  |-> "segmenter",
                                      len |-> recorderFrameLength]]
             IN  pipe' =
                   IF result'.status = "error"
                   THEN [was EXCEPT !.phase = "stopping",
                                    !.isRunning = ~interrupted]
                   ELSE IF interrupted
                   THEN [was EXCEPT !.phase = "stopping",
                                    !.isRunning = FALSE,
                                    !.fed = @ + 1,
                                    !.completed = done]
                   ELSE IF ~over
                   THEN [was EXCEPT !.fed = @ + 1]
                   ELSE IF TooShort(result'.hasAudio, result'.audio)
                   THEN [was EXCEPT !.phase = "wake",
                                    !.fed = @ + 1,
                                    !.completed = done]
                   ELSE [was EXCEPT !.phase = "forward",
                                    !.fed = @ + 1,
                                    !.completed = done,
                                    !.consumer = "pending",
                                    !.forwarded =
                                        Append(@, result'.audio)]
    /\ UNCHANGED <<scen, spotVars, srcVars, rep, ld, drv, eos, llm>>

\* variant: an error of the LLM client ends the loop
PipeConsumerReturns_StopsOnError ==
    /\ pipe.phase = "forward"
    /\ \E fails \in BOOLEAN, interrupted \in BOOLEAN :
          pipe' = [pipe EXCEPT
                     !.phase = IF interrupted \/ fails THEN "stopping"
                               ELSE "wake",
                     !.consumer = IF fails THEN "failed" ELSE "returned",
                     !.isRunning = ~interrupted]
    /\ UNCHANGED <<segVars, scen, spotVars, srcVars, rep, ld, drv, eos, llm>>

\* the LLM client (and the speaking of its answer) returns or fails; both
\* are caught; `llm.clearHistory()` and the head of the outer loop
PipeConsumerReturns ==
    /\ pipe.phase = "forward"
    /\ \E fails \in BOOLEAN, interrupted \in BOOLEAN :
          pipe' = [pipe EXCEPT
                     !.phase = IF interrupted THEN "stopping" ELSE "wake",
                     !.consumer = IF fails THEN "failed" ELSE "returned",
                     !.isRunning = ~interrupted]
    /\ UNCHANGED <<segVars, scen, spotVars, srcVars, rep, ld, drv, eos, llm>>

\* the finally block: each release is awaited in turn, so that one that
\* throws ends the block
PipeShutdown ==
    /\ pipe.phase = "stopping"
    /\ \E fails \in SessionFailures, pauseThrows \in BOOLEAN :
          /\ spotRelease(fails)
          /\ IF wwResult' = "error"
             THEN UNCHANGED <<segVars, ld>>
             ELSE release(pauseThrows) /\ shutdown
    /\ pipe' = [pipe EXCEPT !.phase = "done"]
    /\ UNCHANGED <<scen, srcVars, rep, drv, eos, llm>>

NextPipeline ==
    PipeWakeFrame \/ PipeCaptureFrame \/ PipeConsumerReturns \/ PipeShutdown

SpecPipeline == InitPipeline /\ [][NextPipeline]_vars

\* ------------------------------------------------------------------------
\* Replay: one scripted trace is passed twice, each time through freshly
\* created detectors, with any time between two frames; the inference is
\* deterministic: frame k has the probability trace[k] and the score
\* ReplayScore in both runs
\* ------------------------------------------------------------------------
ReplayLength == 4

ReplayScore == DEFAULT_SENSITIVITY + 40

\* milliseconds between two frames of a replay
ReplayElapsed == {1, 100}

\* the traces of ReplayLength frames, each speech or silence
ReplayTraces == [1..ReplayLength -> {20, 80}]

InitReplay ==
    /\ clock = 1000
    /\ scen = NoScenario
    /\ SourceUnused
    /\ AppUnused
    /\ SpotCreated(DEFAULT_SENSITIVITY)
    /\ \E o \in {DefaultOptions, ShortOptions} : Created(o)
    /\ \E t \in ReplayTraces :
          rep = [run |-> 1, pos |-> 0, trace |-> t,
                 first |-> <<>>, second |-> <<>>]

\* what the callers of the two detectors observe for one frame
ReplayEvent ==
    [status |-> result.status, audio |-> result.audio,
     trigger |-> wwResult]

ReplayFrame ==
    /\ rep.pos < Len(rep.trace)
    /\ \E d \in ReplayElapsed :
          processFrame(FrameOf(rep.pos + 1), rep.trace[rep.pos + 1],
                       clock + d)
    /\ spotProcessFrame(FRAME_LENGTH, MEL_FRAMES_PER_CHUNK, ReplayScore)
    /\ rep' = [rep EXCEPT
                  !.pos = @ + 1,
                  !.first = IF rep.run = 1 THEN Append(@, ReplayEvent')
                            ELSE @,
                  !.second = IF rep.run = 2 THEN Append(@, ReplayEvent')
                             ELSE @]
    /\ UNCHANGED <<scen, srcVars, appVars>>

\* the first run is over: the second starts with fresh detectors
ReplayAgain ==
    /\ rep.run = 1
    /\ rep.pos = Len(rep.trace)
    /\ create(cfg, FALSE)
    /\ spotCreate(sensitivity, 0, 0)
    /\ rep' = [rep EXCEPT !.run = 2, !.pos = 0]
    /\ UNCHANGED <<scen, srcVars, appVars>>

NextReplay == ReplayFrame \/ ReplayAgain

SpecReplay == InitReplay /\ [][NextReplay]_vars

\* ------------------------------------------------------------------------
\* Properties of the segmenter's timing (SpecSeg)
\* ------------------------------------------------------------------------
\* the last call was a processFrame that returned a result
Returned == result.status \in {"continue", "end", "timeout"}

\* the current run of non-speech frames after speech lies wholly between
\* the two thresholds: below speechThreshold, above silenceThreshold
BandRun == runMin # NULL /\ runMin > cfg.silenceThreshold

\* C1: once speech has started, a run of frames whose probability is below
\* speechThreshold but stays above silenceThreshold never makes processFrame
\* return "end".
C1_HysteresisNoEnd == BandRun => result.status # "end"

\* C2: the silence timer starts at the first non-speech frame after speech,
\* and "end" is returned exactly at the first non-speech frame at which the
\* time since that frame exceeds silenceDuration and the time since
\* speechStart has reached minSpeechDuration.
C2_EndTiming ==
    (result.status \in {"continue", "end"} /\ runStart # NULL) =>
        ((result.status = "end") <=>
            /\ clock - runStart > cfg.silenceDuration
            /\ speechAt # NULL
            /\ clock - speechAt >= cfg.minSpeechDuration)

\* C3: a processFrame call returns "timeout", with all the buffered audio,
\* exactly when the time since the first frame after creation / reset
\* exceeds maxRecordingDuration, whatever the speech state; "end" and
\* "continue" are never returned past the bound.
C3_TimeoutBound ==
    Returned =>
        /\ (result.status = "timeout") <=>
               (clock - captureStart > cfg.maxRecordingDuration)
        /\ result.status = "timeout" =>
               /\ result.hasAudio
               /\ result.audio = Flatten(fed)

\* a timeout returned on a frame on which the silence had also lasted
\* longer than silenceDuration after long enough speech
C3_Witness ==
    /\ result.status = "timeout"
    /\ runStart # NULL
    /\ speechAt # NULL
    /\ clock - speechAt >= cfg.minSpeechDuration
    /\ clock - runStart > cfg.silenceDuration + 100

\* C4: as long as no frame since creation / reset was classified as
\* speech, the silence timer is not started and "end" is not returned.
C4_NoEndBeforeSpeech ==
    (~speechSeen /\ ~isReleased) =>
        /\ silenceStartTime = NULL
        /\ result.status # "end"

\* many non-speech frames fed to a detector that has heard no speech
C4_Witness ==
    /\ ~speechSeen
    /\ Len(fed) >= 6
    /\ result.status = "continue"
    /\ clock - captureStart > cfg.silenceDuration

\* C5: a speech frame clears the silence timer, and "end" is returned only
\* after an unbroken run of non-speech frames, counted from the first
\* non-speech frame after the latest speech frame, that lasted longer than
\* silenceDuration.
C5_TimerRestarts ==
    /\ (result.status = "continue" /\ result.isSpeech) =>
           silenceStartTime = NULL
    /\ result.status = "end" =>
           /\ runStart # NULL
           /\ clock - runStart > cfg.silenceDuration

\* an "end" of a capture in which speech interrupted a running timer
C5_Witness == result.status = "end" /\ cleared

\* ------------------------------------------------------------------------
\* Scenario B (SpecScenarioB)
\* ------------------------------------------------------------------------
\* the frame at which the silence after the speech first exceeded
\* silenceDuration has just been processed
SilenceFirstExceeded ==
    /\ runStart # NULL
    /\ clock - runStart > DEFAULT_SILENCE_DURATION
    /\ clock - FRAME_DURATION_MS - runStart <= DEFAULT_SILENCE_DURATION

\* C6 as stated: the trace yields exactly one "end" and no "timeout", and
\* the audio returned with the "end" spans frame 6, the first speech frame,
\* through the frame at which the silence first exceeded 700 ms.
C6_ScenarioB_FromSpeech ==
    /\ scen.timeouts = 0
    /\ scen.ends <= 1
    /\ scen.pos = ScenarioLength => scen.ends = 1
    /\ result.status = "end" =>
           /\ SilenceFirstExceeded
           /\ result.audio = FramesAudio(ScenarioLow + 1, scen.pos)

\* C6 as amended: the trace yields exactly one "end" and no "timeout", and
\* the audio returned with the "end" spans frame 1, the first frame fed,
\* through the frame at which the silence first exceeded 700 ms.
C6_ScenarioB ==
    /\ scen.timeouts = 0
    /\ scen.ends <= 1
    /\ scen.pos = ScenarioLength => scen.ends = 1
    /\ result.status = "end" =>
           /\ SilenceFirstExceeded
           /\ result.audio = FramesAudio(1, scen.pos)

\* the whole trace was replayed and its "end" was returned on the way
C6_Witness ==
    /\ scen.pos = ScenarioLength
    /\ scen.pos > ScenarioLow + ScenarioHigh
    /\ scen.ends = 1

\* ------------------------------------------------------------------------
\* Audio returned by the segmenter (SpecAudio)
\* ------------------------------------------------------------------------
RECURSIVE SumLen(_)
SumLen(s) == IF s = <<>> THEN 0 ELSE Len(Head(s)) + SumLen(Tail(s))

\* only all-zero frames of the required length were fed since creation /
\* reset to a detector with the default options, none classified as speech
ScenarioA ==
    /\ cfg = DefaultOptions
    /\ Returned
    /\ ~speechSeen
    /\ \A i \in 1..Len(fed) : fed[i] = ZeroFrame

\* C7: N all-zero frames, none classified as speech, through a default
\* detector: "continue" until maxRecordingDuration has elapsed since the
\* first frame, then "timeout" with N * frameLength zero samples; never
\* "end".
C7_ScenarioA ==
    ScenarioA =>
        /\ result.status # "end"
        /\ (result.status = "timeout") <=>
               (clock - captureStart > DEFAULT_MAX_RECORDING_DURATION)
        /\ result.status = "timeout" =>
               result.audio = Zeros(Len(fed) * FrameSamples)

\* a timeout after several all-zero frames
C7_Witness ==
    /\ ScenarioA
    /\ result.status = "timeout"
    /\ Len(fed) >= 3

\* C8: after "end" or "timeout" the detector is in the state reset()
\* leaves: no speech, recording duration 0, empty buffer, timers cleared.
C8_TerminalResets ==
    CaptureOver =>
        /\ ~hasSpeech
        /\ getRecordingDuration(clock) = 0
        /\ getRecordingDuration(clock + 100) = 0
        /\ audioBuffer = <<>>
        /\ silenceStartTime = NULL
        /\ recordingStartTime = NULL
        /\ speechStartTime = NULL
        /\ lastProbability = 0
        /\ lastIsSpeech = FALSE
        /\ vad = VadFresh

\* an "end" after speech and several buffered frames
C8_Witness ==
    /\ result.status = "end"
    /\ speechSeen
    /\ Len(result.audio) >= 3

\* C9: the audio returned with "end" or "timeout" is the concatenation, in
\* order, of every frame passed since creation / reset, the last one
\* included; "continue" carries no audio.
C9_AudioIsAllFrames ==
    /\ CaptureOver =>
           /\ result.hasAudio
           /\ result.audio = Flatten(fed)
           /\ Len(result.audio) = SumLen(fed)
    /\ result.status = "continue" => ~result.hasAudio

\* a terminal result after frames of both lengths
C9_Witness ==
    /\ CaptureOver
    /\ Len(fed) >= 3
    /\ \E i, j \in 1..Len(fed) : i < j /\ fed[i] # fed[j]

\* ------------------------------------------------------------------------
\* Detection by the spotter (SpecSpot)
\* ------------------------------------------------------------------------
\* s is t with its first n elements removed
DroppedFrom(s, t, n) == n <= Len(t) /\ s = SubSeq(t, n + 1, Len(t))

C11_RejectionKeepsWindows ==
    [][ ( /\ spotFrames' = spotFrames + 1
          /\ wwResult' = "error"
          /\ (wwCall'.released \/ wwCall'.len # FRAME_LENGTH) )
        => /\ melBuffer' = melBuffer
           /\ embeddingBuffer' = embeddingBuffer
           /\ UNCHANGED <<sensitivity, wwIsReleased, wwIsInitialized,
                          wwSessions, melCount>>
      ]_vars

\* a frame of a wrong length was rejected while both windows held data
C11_Witness ==
    /\ wwCall.op = "processFrame"
    /\ wwCall.len # FRAME_LENGTH
    /\ ~wwCall.released
    /\ wwResult = "error"
    /\ wwError = "Invalid frame length"
    /\ melBuffer # <<>>
    /\ embeddingBuffer # <<>>

\* C12: a processFrame call with a frame of FRAME_LENGTH samples on a
\* created detector that is not released returns true or false and throws
\* nothing, whatever the windows hold.
C12_ValidFrameReturns ==
    ( /\ wwCall.op = "processFrame"
      /\ wwCall.len = FRAME_LENGTH
      /\ ~wwCall.released )
    => /\ wwResult \in {"true", "false"}
       /\ wwError = "none"

\* a valid frame returned false in a call that computed an embedding from a
\* full mel window, ran the wake word model and slid both windows
C12_Witness ==
    /\ wwCall.op = "processFrame"
    /\ wwCall.len = FRAME_LENGTH
    /\ ~wwCall.released
    /\ wwResult = "false"
    /\ Len(embeddingBuffer) = REQUIRED_EMBEDDINGS - 1
    /\ Len(melBuffer) < MEL_BUFFER_SIZE

\* ------------------------------------------------------------------------
\* Creation and release of the detectors (SpecLife)
\* ------------------------------------------------------------------------
\* the options the segmenter is specified to refuse
OutsideSpecifiedRange(o) ==
    \/ o.speechThreshold < 0 \/ o.speechThreshold > 100
    \/ o.silenceThreshold < 0 \/ o.silenceThreshold > 100
    \/ o.silenceDuration < 0
    \/ o.minSpeechDuration < 0
    \/ o.maxRecordingDuration < 0

\* C17: VoiceActivityDetector.create fails with the option error, without
\* initialising the engine, whenever a threshold is outside [0, 1] or one
\* of silenceDuration, minSpeechDuration, maxRecordingDuration is negative.
C17_InvalidOptionsRefused ==
    (made.outcome # "none" /\ OutsideSpecifiedRange(made.options))
    => /\ made.outcome = "VADError: option"
       /\ made.inits = 0

\* C18: WakeWordDetector.create with a sensitivity outside [0, 1] fails
\* with WakeWordError before any model file is checked and before any
\* session is loaded, and leaves no detector.
C18_ScenarioC ==
    ( /\ wwMade.outcome # "none"
      /\ (wwMade.sensitivity < 0 \/ wwMade.sensitivity > 100) )
    => /\ wwMade.outcome = "WakeWordError"
       /\ wwMade.checks = 0
       /\ wwMade.loads = 0
       /\ wwSessions = SessionsNull
       /\ ~wwIsInitialized

\* create was called with a sensitivity of 1.5 and failed
C18_Witness ==
    /\ wwMade.outcome = "WakeWordError"
    /\ wwMade.sensitivity = 150

\* the calls that fail on a released detector
RefusedWhenReleased ==
    {"processFrame", "reset", "getFrameLength", "getSampleRate"}

\* C19: once a detector is released its released flag stays true, and
\* every processFrame, reset, getFrameLength and getSampleRate call on it
\* throws the released error; for the segmenter and for the spotter.
C19_ReleaseTerminal ==
    [][ /\ isReleased => isReleased'
        /\ wwIsReleased => wwIsReleased'
        /\ (call'.released /\ call'.op \in RefusedWhenReleased)
           => /\ result'.status = "error"
              /\ result'.error = "VAD has been released"
        /\ (wwCall'.released /\ wwCall'.op \in RefusedWhenReleased)
           => /\ wwResult' = "error"
              /\ wwError' = "Detector has been released"
      ]_vars

\* both detectors were released and then called
C19_Witness ==
    /\ isReleased
    /\ call.released
    /\ call.op = "getSampleRate"
    /\ result.error = "VAD has been released"
    /\ wwIsReleased
    /\ wwCall.released
    /\ wwCall.op = "processFrame"
    /\ wwError = "Detector has been released"

\* C20: release() of a detector never throws, whatever state the detector
\* is in and whatever the engine or a session does while being released.
C20_ReleaseNeverThrows ==
    /\ call.op = "release" => result.status # "error"
    /\ wwCall.op = "release" => wwResult # "error"

\* ------------------------------------------------------------------------
\* The scripted source (SpecSource)
\* ------------------------------------------------------------------------
\* C13: once stop() or release() of the scripted source has returned, the
\* frame callback is not invoked again until start() begins a new run;
\* whether the call came between two frames, during the pacing delay or
\* from inside the callback.
C13_NoFrameAfterStop == ~emLog.late

\* the callback itself stopped the source in one run, in another run a loop
\* resumed from its pacing delay after stop() or release() had returned,
\* frames were handed out and some of the buffer was never emitted
C13_Witness ==
    /\ emLog.inside
    /\ emLog.wokeQuiet
    /\ emLog.quiet
    /\ ~emLog.late
    /\ ~em.released
    /\ em.sleeping = 0
    /\ emLog.delivered # <<>>
    /\ em.position < Len(em.audioBuffer)

\* a run of the source that started at position 0 with a callback and was
\* left alone has come to its end
RunComplete == emLog.clean /\ ~em.running

\* C14: an uninterrupted run from position 0 over a buffer of L > 0
\* samples hands the callback exactly ceil(L / frameLength) frames, each
\* of frameLength samples, and the samples of the last frame beyond the
\* end of the buffer are zero.
C14_FrameCount ==
    RunComplete =>
        LET L == Len(emLog.source)
            f == em.frameLength
        IN  /\ L > 0
            /\ Len(emLog.delivered) = (L + f - 1) \div f
            /\ \A i \in 1..Len(emLog.delivered) :
                  /\ Len(emLog.delivered[i]) = f
                  /\ \A j \in 1..f :
                        (i - 1) * f + j > L => emLog.delivered[i][j] = 0

\* a complete run of several frames whose last frame is padded, and the
\* frame count is the one getTotalFrames() reports
C14_Witness ==
    /\ RunComplete
    /\ Len(emLog.delivered) > 1
    /\ Len(emLog.delivered) = getTotalFrames(em)
    /\ Len(emLog.source) % em.frameLength # 0

\* the first n elements of s, or all of s if it has fewer
Truncated(s, n) == SubSeq(s, 1, IF n < Len(s) THEN n ELSE Len(s))

\* C15: the frames of an uninterrupted run, concatenated in the order
\* they were delivered and cut to the length of the buffer, are the
\* buffer: every sample once, in order.
C15_RoundTrip ==
    RunComplete =>
        Truncated(Flatten(emLog.delivered), Len(emLog.source))
            = emLog.source

\* a complete paced run of several frames over a buffer that is not a
\* whole number of frames
C15_Witness ==
    /\ RunComplete
    /\ em.realtime
    /\ Len(emLog.delivered) > 2
    /\ Len(emLog.source) > em.frameLength * (Len(emLog.delivered) - 1)
    /\ Len(emLog.source) < em.frameLength * Len(emLog.delivered)

\* ------------------------------------------------------------------------
\* Replay of a scripted trace (SpecReplay)
\* ------------------------------------------------------------------------
\* C16: replaying the same scripted trace through freshly created
\* detectors yields the same events: frame by frame the same trigger
\* result, the same status and the same audio, whatever time passes
\* between the frames of either run.
C16_Determinism ==
    rep.run = 2 =>
        \A k \in 1..Len(rep.second) : rep.second[k] = rep.first[k]

\* the step is a call of the named operation on the scripted source
CallStep(op) == emLog'.calls = emLog.calls + 1 /\ emLog'.op = op

\* C22: start() of the scripted source fails with the released error after
\* release() (although release emptied the buffer), returns without error
\* and without effect while the source runs, and fails with the no-data
\* error on a source that is neither running nor released and has an empty
\* buffer; whenever it fails the source is not running afterwards and no
\* frame has been delivered
C22_StartRefusals ==
    [][CallStep("start") =>
        /\ em.released =>
              /\ emLog'.result = "error: released"
              /\ em' = em /\ ~em'.running
              /\ emLog'.delivered = emLog.delivered
        /\ (~em.released /\ em.running) =>
              /\ emLog'.result = "ok"
              /\ em' = em
              /\ emLog'.delivered = emLog.delivered
        /\ (~em.released /\ ~em.running /\ Len(em.audioBuffer) = 0) =>
              /\ emLog'.result = "error: no audio data"
              /\ em' = em /\ ~em'.running
              /\ emLog'.delivered = emLog.delivered
        /\ emLog'.result # "ok" =>
              /\ ~em'.running
              /\ emLog'.delivered = emLog.delivered]_vars

\* start() has been refused on a released source that had emitted frames
C22_Witness ==
    /\ emLog.op = "start"
    /\ emLog.result = "error: released"
    /\ em.released
    /\ emLog.delivered # <<>>

\* C23: setAudioBuffer(b) makes b the buffer and sets the cursor to 0,
\* reset() sets the cursor to 0 and leaves the buffer as it is, and a
\* start() that follows either of them emits from the first sample
C23_CursorReset ==
    [][/\ CallStep("setAudioBuffer") =>
              /\ em'.audioBuffer = emLog'.arg
              /\ em'.position = 0
       /\ CallStep("reset") =>
              /\ em'.audioBuffer = em.audioBuffer
              /\ em'.position = 0
       /\ ( /\ CallStep("start")
            /\ emLog.op \in {"reset", "setAudioBuffer"}
            /\ ~em.released /\ ~em.running /\ em.frameCallback
            /\ Len(em.audioBuffer) > 0 ) =>
              /\ emLog'.delivered # <<>>
              /\ Head(emLog'.delivered)[1] = em.audioBuffer[1]]_vars

\* the source has emitted frames, its cursor was then set back by reset()
\* and the start() that followed has emitted again
C23_Witness ==
    /\ emLog.op = "start"
    /\ emLog.result = "ok"
    /\ emLog.from > 0
    /\ emLog.delivered # <<>>

\* C27: getProgress() of the scripted source is between 0 and 100 in every
\* state, that is, the cursor never passes the end of the buffer
C27_ProgressInRange ==
    /\ getProgress(em) \in 0..100
    /\ em.position <= Len(em.audioBuffer)

\* C29: at most one emission loop of a source is active at any time,
\* whatever the order of start(), stop() and the ends of the loop's sleeps
C29_SingleLoop == em.sleeping <= 1

\* C24: reset() of the spotter empties both windows and neither releases
\* nor reloads a session: every field that processFrame, reset, the
\* getters and release read is, after reset(), what create() with the same
\* sensitivity returns, so every later sequence of frames is answered as a
\* freshly created detector answers it
C24_ResetLikeFresh ==
    [][(wwCall'.op = "reset" /\ wwResult' = "reset") =>
          /\ melBuffer' = <<>>
          /\ embeddingBuffer' = <<>>
          /\ sensitivity' = sensitivity
          /\ sensitivity' = wwMade.sensitivity
          /\ wwSessions' = wwSessions
          /\ wwSessions' = SessionsLoaded
          /\ wwIsInitialized'
          /\ ~wwIsReleased'
          /\ wwMade' = wwMade]_vars

\* reset() has returned on a spotter that had computed embeddings
C24_Witness ==
    /\ wwCall.op = "reset"
    /\ wwResult = "reset"
    /\ melCount >= MEL_BUFFER_SIZE + EMBEDDING_WINDOW_SLIDE
    /\ melBuffer = <<>>
    /\ embeddingBuffer = <<>>

\* the mel frames or stage-2 windows of s follow one another d apart
Strided(s, d) == \A i \in 1..(Len(s) - 1) : s[i + 1][1] = s[i][1] + d

\* every embedding of s was computed from MEL_BUFFER_SIZE mel frames, and
\* the windows of two neighbours start EMBEDDING_WINDOW_SLIDE frames apart
Stage2Windows(s) ==
    /\ \A i \in 1..Len(s) : s[i][2] = s[i][1] + MEL_BUFFER_SIZE - 1
    /\ Strided(s, EMBEDDING_WINDOW_SLIDE)

\* the windows the stages of the spotter have read in the current run
StrideBookkeeping ==
    \* the mel window holds consecutive frames, up to the last one produced
    /\ \A i \in 1..Len(melBuffer) :
          melBuffer[i] = melCount - Len(melBuffer) + i
    \* stage 2 has read windows of 76 frames at the offsets 0, 8, 16, ...
    /\ Stage2Windows(embeddingBuffer)
    /\ \A i \in 1..Len(embeddingBuffer) :
          (embeddingBuffer[i][1] - (wwRead.base + 1))
              % EMBEDDING_WINDOW_SLIDE = 0
    \* and its next window is the next offset: no mel frame is skipped
    /\ melBuffer # <<>> =>
          melBuffer[1] =
              IF embeddingBuffer # <<>>
              THEN embeddingBuffer[Len(embeddingBuffer)][1]
                       + EMBEDDING_WINDOW_SLIDE
              ELSE IF wwRead.stage3 # <<>> /\ ~wwRead.ended
              THEN wwRead.stage3[REQUIRED_EMBEDDINGS][1]
                       + EMBEDDING_WINDOW_SLIDE
              ELSE wwRead.base + 1
    \* stage 3 has read 16 embeddings of consecutive stage-2 windows
    /\ wwRead.stage3 # <<>> =>
          /\ Len(wwRead.stage3) = REQUIRED_EMBEDDINGS
          /\ Stage2Windows(wwRead.stage3)

\* C30: over a run of frames processed one after the other without a
\* detection or a reset, every stage-2 call reads 76 consecutive mel
\* frames and the stage-2 windows start 8 mel frames apart at the offsets
\* 0, 8, 16, ...; every stage-3 call reads 16 consecutive embeddings and
\* the stage-3 windows start one embedding apart; no mel frame and no
\* embedding is skipped
C30_StrideBookkeeping ==
    [][/\ StrideBookkeeping'
       /\ ( /\ wwRead.stage3 # <<>> /\ ~wwRead.ended
            /\ wwRead'.stage3 # wwRead.stage3
            /\ wwRead'.stage3 # <<>> ) =>
              /\ wwRead'.stage3[1] = wwRead.stage3[2]
              /\ wwRead'.base = wwRead.base \/ wwRead'.ended
       /\ ( /\ wwRead.stage3 = <<>>
            /\ wwRead'.stage3 # <<>> ) =>
              wwRead'.stage3[1][1] = wwRead.base + 1]_vars

\* stage 3 has read its third window in a run without detection: stage 2
\* has read 18 windows by then
C30_Witness ==
    /\ wwRead.stage3 # <<>>
    /\ ~wwRead.ended
    /\ wwRead.stage3[1][1] = wwRead.base + 1 + 2 * EMBEDDING_WINDOW_SLIDE
    /\ wwResult = "false"

\* the step is a call of the named operation on the microphone channel
MicStep(op) == mic'.log.calls = mic.log.calls + 1 /\ mic'.log.op = op

\* the fields of the spotter
spotFields == <<melBuffer, embeddingBuffer, sensitivity, wwIsReleased,
                wwIsInitialized, wwSessions>>

\* C21: a second release() of a detector or of a source, and a second
\* stop() of a source, returns without an error and changes no field: the
\* released flag, isRunning, the buffers and every session or handle are
\* as the first call left them, and the recorder is not stopped or
\* released a second time
C21_IdempotentShutdown ==
    [][/\ (call'.op = "release" /\ isReleased) =>
              /\ segFields' = segFields
              /\ vad' = VadNull
              /\ result'.status = "released"
       /\ (wwCall'.op = "release" /\ wwIsReleased) =>
              /\ spotFields' = spotFields
              /\ wwSessions' = SessionsNull
              /\ wwResult' = "released"
       /\ (CallStep("release") /\ em.released) =>
              /\ em' = em
              /\ emLog'.result = "ok"
       /\ (CallStep("stop") /\ ~em.running) =>
              /\ em' = em
              /\ emLog'.result = "ok"
       /\ (MicStep("release") /\ mic.ch.released) =>
              /\ mic'.ch = mic.ch
              /\ mic'.log.result = "ok"
       /\ (MicStep("stop") /\ ~mic.ch.running) =>
              /\ mic'.ch = mic.ch
              /\ mic'.log.result = "ok"]_vars

\* each of the four has been used and then released twice in a row
C21_Witness ==
    /\ call = [op |-> "release", released |-> TRUE] /\ frames > 0
    /\ wwCall.op = "release" /\ wwCall.released /\ spotFrames > 0
    /\ emLog.op = "release" /\ emLog.calls = 3 /\ emLog.source # <<>>
    /\ mic.log.op = "release" /\ mic.log.calls = 3 /\ mic.ch.starts = 1
    /\ mic.ch.releases = 1

\* the step is a call of executeTool
ExecuteStep ==
    ld'.log.calls = ld.log.calls + 1 /\ ld'.log.op = "executeTool"

\* the result the step's executeTool resolved with is a failure that
\* carries an error message
FailureReported ==
    /\ ld'.log.settled = "resolved"
    /\ ld'.log.outcome.success = FALSE
    /\ ld'.log.outcome.error # "none"

\* the name belongs to tools of plugins whose last setup() threw, and to no
\* other plugin
OfFailedPlugin(name) ==
    /\ \E p \in Plugins : name \in ToolsOf(p)
    /\ \A p \in Plugins : name \in ToolsOf(p) => ld.log.setupFailed[p]

\* C26 as stated: executeTool always resolves, and the tool of a plugin
\* whose setup failed is never registered and therefore reported as an
\* unknown tool
C26_FailedSetupIsUnknown ==
    [][(ExecuteStep /\ OfFailedPlugin(ld'.log.name)) =>
          /\ FailureReported
          /\ ld.tools[ld'.log.name] = "none"
          /\ ld'.log.outcome.error = "Unknown tool"]_vars

\* C26 (amended): executeTool never throws or rejects.  It resolves with
\* success=false and an error message for a name no registered tool has
\* (as the tools of a plugin whose setup failed and that was never
\* registered), for a registered tool whose plugin is disabled (its setup
\* failed when it was registered again) and for a tool whose execute
\* throws; for every other call it resolves with exactly the result the
\* tool's execute resolved with
C26_ExecuteToolTotal ==
    [][ExecuteStep =>
          LET name    == ld'.log.name
              known   == ld.tools[name] # "none"
              enabled == known /\ ld.enabled[ld.tools[name]] = "true"
          IN  /\ ld'.log.settled = "resolved"
              /\ ~known =>
                    FailureReported /\ ld'.log.outcome.error = "Unknown tool"
              /\ OfFailedPlugin(name) =>
                    /\ FailureReported
                    /\ ld'.log.outcome.error
                          \in {"Unknown tool", "Plugin is disabled"}
              /\ (known /\ ~enabled) =>
                    /\ FailureReported
                    /\ ld'.log.outcome.error = "Plugin is disabled"
              /\ (enabled /\ ld'.log.met.kind # "returns") =>
                    /\ FailureReported
                    /\ ld'.log.outcome.error
                          \in {"execute error", "Tool execution failed"}
              /\ (enabled /\ ld'.log.met.kind = "returns") =>
                    ld'.log.outcome = ld'.log.met.result
              /\ [ld EXCEPT !.log = ld'.log] = ld']_vars

\* executeTool has answered for the tool of a plugin that was registered
\* and whose setup failed when it was registered a second time
C26_Witness ==
    /\ ld.log.op = "executeTool"
    /\ ld.log.outcome = Failure("Plugin is disabled")
    /\ ld.log.setupFailed[ld.tools[ld.log.name]]

\* C25 as stated: every capture the segmenter completed in the pipeline was
\* forwarded to the LLM client, with its audio, exactly once: the audio
\* forwarded so far is the audio of the captures completed so far, in
\* order (once the step that completed a capture is over, its audio has
\* been handed to the client)
C25_EveryCaptureForwarded == pipe.forwarded = pipe.completed

\* C25, amended: a step of the pipeline in which the segmenter returns
\* 'end' or 'timeout' hands the audio of that result to the LLM client,
\* once, when the pipeline is still running and the audio has at least
\* MIN_AUDIO_SAMPLES samples, and hands nothing to it otherwise; no other
\* step hands anything to the client.  So no capture is forwarded twice,
\* and the captures dropped are the short ones and those completed after
\* SIGINT
C25_CaptureForwardedOnce ==
    [][ pipe.phase # "off" =>
          LET over == /\ frames' = frames + 1
                      /\ result'.status \in {"end", "timeout"}
              long == Len(result'.audio) * FRAME_LENGTH
                          >= MIN_AUDIO_SAMPLES * FrameSamples
          IN  /\ pipe'.completed =
                    IF over THEN Append(pipe.completed, result'.audio)
                    ELSE pipe.completed
              /\ pipe'.forwarded =
                    IF over /\ pipe'.isRunning /\ long
                    THEN Append(pipe.forwarded, result'.audio)
                    ELSE pipe.forwarded
              /\ over /\ result'.hasAudio
                    => result'.audio = Flatten(fed') ]_vars

\* the segmenter completed a capture and its audio is with the LLM client
C25_Witness ==
    /\ pipe.phase = "forward"
    /\ pipe.isRunning
    /\ result.status \in {"end", "timeout"}
    /\ pipe.completed = <<result.audio>>
    /\ pipe.forwarded = <<result.audio>>

\* the frames the spotter accepted since its creation, the last reset() or
\* the last detection, of which each produced MEL_FRAMES_PER_CHUNK mel
\* frames; base is the mel count at which that run began
FramesSince(count, base) == (count - base) \div MEL_FRAMES_PER_CHUNK

\* C34: with 5 mel frames per input frame, a processFrame that returns
\* true is at least the 40th frame accepted since the creation, the last
\* reset() or the last detection, whatever the scores; and the wake word
\* model has not run before 16 embeddings were there
C34_NoEarlyTrigger ==
    [][ spotFrames' = spotFrames + 1 =>
          /\ wwResult' = "true" =>
                FramesSince(melCount', wwRead.base) >= 40
          /\ lastScore' # NULL =>
                /\ Len(wwRead'.stage3) = REQUIRED_EMBEDDINGS
                /\ FramesSince(melCount', wwRead.base) >= 40 ]_vars

\* a second detection, at exactly the 40th frame after the first one
C34_Witness ==
    /\ wwResult = "true"
    /\ wwCall.op = "processFrame"
    /\ spotFrames = 80
    /\ melCount = 80 * MEL_FRAMES_PER_CHUNK
    /\ wwRead.base = melCount
    /\ wwRead.ended

\* C39: with 5 mel frames per input frame, whenever processFrame has
\* returned (true or false) the mel window holds fewer than
\* MEL_BUFFER_SIZE frames and the embedding window fewer than
\* REQUIRED_EMBEDDINGS embeddings, however many frames were processed
C39_WindowsBounded ==
    wwResult \in {"true", "false"} =>
        /\ Len(melBuffer) < MEL_BUFFER_SIZE
        /\ Len(embeddingBuffer) < REQUIRED_EMBEDDINGS

\* both windows are as full as they get after a frame that did not trigger
C39_Witness ==
    /\ wwResult = "false"
    /\ Len(embeddingBuffer) = REQUIRED_EMBEDDINGS - 1
    /\ Len(melBuffer) = MEL_BUFFER_SIZE - 1
    /\ spotFrames > 60

\* C33: stop() returns at once (it is one step and awaits nothing), and
\* when a read that was in flight at that stop() completes, with a frame or
\* with an error, the callback is not called and the loop that waited for
\* it ends: no frame is delivered and one loop fewer is reading
C33_StaleReadIgnored ==
    [][ (mic'.log.reads = mic.log.reads + 1 /\ mic.log.stale > 0) =>
          /\ mic'.log.delivered = mic.log.delivered
          /\ mic'.ch.reading = mic.ch.reading - 1 ]_vars

\* the same for a channel that was not started again since that stop()
C33_StaleReadIgnoredWhileStopped ==
    [][ (/\ mic'.log.reads = mic.log.reads + 1
         /\ mic.log.stale > 0
         /\ ~mic.ch.running) =>
          /\ mic'.log.delivered = mic.log.delivered
          /\ mic'.ch.reading = mic.ch.reading - 1 ]_vars

\* the source has played its buffer to the end and no loop is left
PlayedOut == ~em.running /\ em.sleeping = 0 /\ isComplete(em)

\* C36: on a source that is only ever extended (prependAudio, appendAudio)
\* and played on by start() without reset(), the callback receives the
\* samples not yet delivered, the added ones included, once each and in
\* buffer order: it never receives anything but the next samples not yet
\* delivered, and when the source has played to its end none is left
C36_ExtensionExactlyOnce ==
    emLog.track =>
        /\ ~emLog.stray
        /\ (PlayedOut /\ emLog.op \in {"start", "wake"})
              => emLog.pending = <<>>

\* the emission loop has returned (so the promise waitForCompletion()
\* awaits is resolved), isRunning() is false and isComplete() is true
Finished == em.sleeping = 0 /\ ~em.running /\ isComplete(em)

\* C35: a source started on a buffer that is not empty and never stopped
\* finishes.  Fast: the start() that begins the run returns with the loop
\* ended.  Paced: whenever the source is running, the loop ends after
\* finitely many pacing delays.  At the end isRunning() is false,
\* isComplete() is true and waitForCompletion() resolves
C35_Terminates ==
    /\ [][ (/\ emLog'.calls = emLog.calls + 1
            /\ emLog'.op = "start"
            /\ emLog'.result = "ok"
            /\ ~em.realtime) => Finished' ]_vars
    /\ (em.running ~> Finished)

\* a paced run of several frames has finished, the last of them after a
\* pacing delay
C35_Witness ==
    /\ Finished
    /\ em.realtime
    /\ emLog.op = "wake"
    /\ Len(emLog.delivered) > 2
    /\ Len(emLog.source) > 0

\* C31: the pipeline alternates between waiting and capturing.  A frame
\* goes to the spotter only while waiting and to the segmenter only while
\* capturing; capturing begins only from waiting, in the step in which the
\* spotter returned true, and that step calls reset() on the segmenter, so
\* the first capture frame meets a reset segmenter; after 'end' or
\* 'timeout' a pipeline that is still running waits again, at once or
\* after the LLM client was called; and when that call returns or fails a
\* pipeline that is still running waits again
C31_Alternation ==
    [][ pipe.phase # "off" =>
          /\ spotFrames' # spotFrames => pipe.phase = "wake"
          /\ frames' # frames => pipe.phase = "capture"
          /\ (pipe'.phase = "capture" /\ pipe.phase # "capture") =>
                /\ pipe.phase = "wake"
                /\ spotFrames' = spotFrames + 1
                /\ wwResult' = "true"
                /\ call'.op = "reset"
                /\ audioBuffer' = <<>> /\ ~hasDetectedSpeech'
                /\ recordingStartTime' = NULL
          /\ (frames' # frames /\ pipe.fed = 0) => call.op = "reset"
          /\ (/\ pipe.phase = "capture"
              /\ result'.status \in {"end", "timeout"}
              /\ pipe'.isRunning) =>
                /\ pipe'.phase \in {"wake", "forward"}
                /\ pipe'.phase = "forward" => pipe'.consumer = "pending"
          /\ (pipe.phase = "forward" /\ pipe' # pipe) =>
                /\ pipe'.consumer \in {"returned", "failed"}
                /\ pipe'.isRunning => pipe'.phase = "wake"
          /\ pipe'.phase = "forward" => pipe.phase \in {"capture", "forward"}
      ]_vars

\* the LLM client failed on a capture and the pipeline has passed a frame
\* to the spotter since
C31_Witness ==
    /\ pipe.phase = "wake"
    /\ pipe.isRunning
    /\ pipe.consumer = "failed"
    /\ Len(pipe.forwarded) = 1
    /\ pipe.sent.to = "spotter"
    /\ wwResult = "false"

\* C32: every frame the pipeline passes to the segmenter has the length
\* the segmenter's getFrameLength() returns, and every frame it passes to
\* the spotter has the length the spotter's getFrameLength() returns
C32_FrameLengthsMatch ==
    /\ pipe.sent.to = "segmenter" => pipe.sent.len = VAD_FRAME_SAMPLES
    /\ pipe.sent.to = "spotter" => pipe.sent.len = FRAME_LENGTH

\* the places of the 'tool' messages that carry this tool_call_id
AnswersTo(id) ==
    {m \in 1..Len(llm.messages) :
        /\ llm.messages[m].role = "tool"
        /\ llm.messages[m].tool_call_id = id}

\* the content a call can be answered with
ContentsFor(toolCall) ==
    IF toolCall.name \notin Executors THEN {"unknown tool"}
    ELSE IF ParseThrows(toolCall.arguments) THEN {"error"}
    ELSE {"result", "error"}

\* every call of the assistant message at place k has exactly one answer,
\* which stands after k and within the first n messages
AnsweredWithin(k, n) ==
    \A j \in 1..Len(llm.messages[k].tool_calls) :
        LET toolCall == llm.messages[k].tool_calls[j]
        IN  /\ Cardinality(AnswersTo(toolCall.id)) = 1
            /\ \A m \in AnswersTo(toolCall.id) :
                  /\ k < m /\ m <= n
                  /\ llm.messages[m].content \in ContentsFor(toolCall)

\* whenever no tool is being executed, so in particular when a request has
\* just been sent, every call of every assistant message that came with
\* finish_reason 'tool_calls' is answered once, after that message, and the
\* request carries the answers; no call is ever answered twice
ToolCallsAnswered ==
    /\ \A k \in 1..Len(llm.messages) :
          \A j \in 1..Len(llm.messages[k].tool_calls) :
              Cardinality(AnswersTo(llm.messages[k].tool_calls[j].id)) <= 1
    /\ llm.pc # "execute" =>
          \A k \in 1..Len(llm.messages) :
              (/\ llm.messages[k].role = "assistant"
               /\ llm.messages[k].finish_reason = "tool_calls")
              => AnsweredWithin(k, IF llm.pc = "request" THEN llm.sent
                                   ELSE Len(llm.messages))

\* a step in which a response arrives: the message it appended
Arrived == llm'.messages[Len(llm.messages) + 1]
ResponseStep ==
    llm.pc = "request" /\ Len(llm'.messages) > Len(llm.messages)

\* a round (the assistant message and the answers to its calls) is followed
\* by a request
RequestFollowsRound ==
    (/\ llm.pc \in {"request", "execute"}
     /\ llm'.pc \notin {"execute", "done"}
     /\ llm' # llm
     /\ llm'.pc # "failed")
    => llm'.pc = "request" /\ llm'.requests = llm.requests + 1
                           /\ llm'.sent = Len(llm'.messages)

C37_SameStatus == eos.calls > 0 => eos.status = result.status

\* C28: the frames of a source are processed one at a time: no frame is
\* handed to the consumer before the processFrame begun for the frame
\* before it has settled, so no two processFrame executions overlap
C28_OneFrameAtATime == drv.inflight <= 1

====
